---- MODULE Spec2Model ----
(***************************************************************************)
(* A model of the ethical-review core of AI_Ethical_Work:                  *)
(*   - the response parser  (backend/app/api.py, _parse_ethical_analysis)  *)
(*   - the alignment analyzer (backend/app/modules/alignment_detector.py)  *)
(*   - the friction monitor   (backend/app/modules/friction_monitor.py)    *)
(*                                                                         *)
(* Text is modelled as a sequence of tokens, each token standing for one   *)
(* indivisible run of characters: "SM" and "SC" are the two literal        *)
(* markers, "F" is a ``` fence, "json" the tag after it, "ws" a run of     *)
(* whitespace, "w" a run of ordinary prose, "PH" the placeholder text.     *)
(* Inside a JSON text "{", "}" and "," are themselves, a key token such as *)
(* "deontology" stands for the quoted key and its colon, and a scalar      *)
(* token stands for one literal.  Indices are 0-based as in the source.    *)
(*                                                                         *)
(* Floating point values are modelled exactly, as integers scaled by a     *)
(* stated factor.                                                          *)
(***************************************************************************)
EXTENDS Integers, Sequences, FiniteSets, TLC

VARIABLES
    pc,                 \* position of the caller: which call comes next
    analysis_text,      \* api.py: the argument of _parse_ethical_analysis
    parse_result,       \* api.py: what _parse_ethical_analysis returned and logged
    ethical_scores,     \* alignment_detector.py: argument of analyze_alignment
    alignment_result,   \* alignment_detector.py: the AlignmentResult returned
    prev_scores,        \* the argument of the call before this one
    prev_result,        \* the AlignmentResult of the call before this one
    interaction_history,\* friction_monitor.py: FrictionMonitor._interaction_history
    monitor_return,     \* friction_monitor.py: what the latest FrictionMonitor call returned
    measured,           \* the caller's log: what measure_friction returned, call by call,
                        \* since construction or the latest clear_history
    cleared,            \* the caller's log: clear_history has been called
    agreements,         \* voluntary_adoption.py: VoluntaryAdoption._agreements
    tracker_return,     \* voluntary_adoption.py: the latest call on the tracker and its result
    status_before,      \* the caller's note: the status of the agreement named in the
                        \* latest call, as it was before that call
    agent_profiles,     \* multi_agent_alignment.py: the profiles created so far
    consensus_return,   \* multi_agent_alignment.py: what the latest consensus call returned
    constraint_info,    \* constraint_transparency.py: the latest _categorize_constraint
                        \* call, its argument and the ConstraintInfo.category it returned
    reader,             \* friction_monitor.py: a thread inside calculate_friction_trend
                        \* or get_history_summary: its position, its local values and
                        \* (entered_with) the history as it was when the call began
    interleaved,        \* a write to the history has happened since that call began
    default_monitor,    \* friction_monitor.py: the module's global _default_monitor
    default_detector,   \* alignment_detector.py: the module's global _default_detector
    objects,            \* the instances constructed so far; an instance is known by its
                        \* place in this sequence
    references          \* what the accessor calls returned, call by call

vars == <<pc, analysis_text, parse_result, ethical_scores, alignment_result,
          prev_scores, prev_result, interaction_history, monitor_return, measured, cleared,
          agreements, tracker_return, status_before, agent_profiles, consensus_return,
          constraint_info, reader, interleaved, default_monitor, default_detector,
          objects, references>>

parserVars == <<analysis_text, parse_result>>
alignVars == <<ethical_scores, alignment_result, prev_scores, prev_result>>
frictionVars == <<interaction_history, monitor_return, measured, cleared>>
trackerVars == <<agreements, tracker_return, status_before>>
agentVars == <<agent_profiles, consensus_return>>
accessorVars == <<default_monitor, default_detector, objects, references>>
moduleVars == <<constraint_info, reader, interleaved, accessorVars>>

-----------------------------------------------------------------------------
(* Generic helpers                                                         *)

Min(S) == CHOOSE x \in S : \A y \in S : x <= y

Max(S) == CHOOSE x \in S : \A y \in S : x >= y

RECURSIVE SumSeq(_)
SumSeq(s) == IF s = <<>> THEN 0 ELSE Head(s) + SumSeq(Tail(s))

-----------------------------------------------------------------------------
(* JSON values: a decoded value is a dict (a function from keys to values) *)
(* or a scalar (number, string or list literal).  None is Python's None.   *)

Dict(f) == [t |-> "dict", v |-> f]

Scalar(tok) == [t |-> "scalar", v |-> tok]

None == [t |-> "none", v |-> <<>>]

\* the value of a result variable before the call that sets it
NoCall == [t |-> "nocall", v |-> <<>>]

IsDict(x) == x.t = "dict"

NumToks == <<"0", "1", "2", "3", "4", "5", "6", "7", "8", "9", "10">>

Num(n) == Scalar(NumToks[n + 1])

Str == Scalar("STR")

RequiredDims == {"deontology", "teleology", "virtue_ethics"}

KeyOrder == <<"deontology", "teleology", "virtue_ethics", "memetics", "ai_welfare", "extra",
              "adherence_score", "confidence_score", "friction_score", "voluntary_alignment",
              "dignity_respect", "constraints_identified", "suppressed_alternatives",
              "justification">>

-----------------------------------------------------------------------------
(* Python string operations on token sequences                             *)

\* str.find: 0-based index of the first occurrence, -1 when there is none
Find(text, tok) ==
    IF \E i \in 1..Len(text) : text[i] = tok
    THEN Min({i \in 1..Len(text) : text[i] = tok}) - 1
    ELSE -1

\* text[a:b] for 0 <= a
Slice(text, a, b) == SubSeq(text, a + 1, b)

\* text[a:] for 0 <= a
SliceFrom(text, a) == SubSeq(text, a + 1, Len(text))

\* str.strip
Strip(text) ==
    LET keep == {i \in 1..Len(text) : text[i] # "ws"}
    IN IF keep = {} THEN <<>> ELSE SubSeq(text, Min(keep), Max(keep))

\* str.endswith
EndsWith(text, suffix) ==
    /\ Len(suffix) <= Len(text)
    /\ SubSeq(text, Len(text) - Len(suffix) + 1, Len(text)) = suffix

\* first index >= i that is past the end or not whitespace
SkipWs(toks, i) ==
    Min({j \in i..(Len(toks) + 1) : j = Len(toks) + 1 \/ toks[j] # "ws"})

-----------------------------------------------------------------------------
(* re.search(r"```json\s*(\{.*?\})\s*```", text, re.DOTALL)                *)

\* the end (index of the closing fence) of the match that starts at i, or 0
MatchEndAt(text, i) ==
    IF i + 1 <= Len(text) /\ text[i] = "F" /\ text[i + 1] = "json"
    THEN LET open == SkipWs(text, i + 2)
         IN IF open <= Len(text) /\ text[open] = "{"
            THEN LET closes == {k \in (open + 1)..Len(text) :
                                   /\ text[k] = "}"
                                   /\ SkipWs(text, k + 1) <= Len(text)
                                   /\ text[SkipWs(text, k + 1)] = "F"}
                 IN IF closes = {} THEN 0 ELSE SkipWs(text, Min(closes) + 1)
            ELSE 0
    ELSE 0

re_search(text) ==
    LET starts == {i \in 1..Len(text) : MatchEndAt(text, i) # 0}
    IN IF starts = {}
       THEN [found |-> FALSE, group0 |-> <<>>, group1 |-> <<>>]
       ELSE LET i == Min(starts)
                e == MatchEndAt(text, i)
                open == SkipWs(text, i + 2)
                close == Max({k \in open..(e - 1) : text[k] = "}"})
            IN [found |-> TRUE,
                group0 |-> SubSeq(text, i, e),
                group1 |-> SubSeq(text, open, close)]

-----------------------------------------------------------------------------
(* json.loads on a token sequence                                          *)

Fail == [ok |-> FALSE, val |-> None, next |-> 0]

RECURSIVE ParseValue(_, _), ParseMembers(_, _, _)
ParseValue(toks, i0) ==
    LET i == SkipWs(toks, i0)
    IN IF i > Len(toks) THEN Fail
       ELSE IF toks[i] \in {NumToks[k] : k \in 1..Len(NumToks)} \cup {"STR", "LIST"}
            THEN [ok |-> TRUE, val |-> Scalar(toks[i]), next |-> i + 1]
       ELSE IF toks[i] = "{"
            THEN LET j == SkipWs(toks, i + 1)
                 IN IF j <= Len(toks) /\ toks[j] = "}"
                    THEN [ok |-> TRUE, val |-> Dict(<<>>), next |-> j + 1]
                    ELSE ParseMembers(toks, j, <<>>)
       ELSE Fail

ParseMembers(toks, i0, acc) ==
    LET i == SkipWs(toks, i0)
    IN IF i > Len(toks) \/ toks[i] \notin {KeyOrder[k] : k \in 1..Len(KeyOrder)} THEN Fail
       ELSE LET r == ParseValue(toks, i + 1)
            IN IF ~r.ok THEN Fail
               ELSE LET acc2 == [k \in (DOMAIN acc) \cup {toks[i]} |->
                                    IF k = toks[i] THEN r.val ELSE acc[k]]
                        j == SkipWs(toks, r.next)
                    IN IF j > Len(toks) THEN Fail
                       ELSE IF toks[j] = "}"
                            THEN [ok |-> TRUE, val |-> Dict(acc2), next |-> j + 1]
                       ELSE IF toks[j] = ","
                            THEN ParseMembers(toks, j + 1, acc2)
                       ELSE Fail

json_loads(toks) ==
    LET r == ParseValue(toks, 1)
    IN IF r.ok /\ SkipWs(toks, r.next) > Len(toks)
       THEN [ok |-> TRUE, val |-> r.val]
       ELSE [ok |-> FALSE, val |-> None]

-----------------------------------------------------------------------------
(* _parse_ethical_analysis                                                 *)

Placeholder == <<"PH">>

ValidStructure_AllFiveRequired(parsed_json) ==
    /\ IsDict(parsed_json)
    /\ \A dim \in RequiredDims \cup {"memetics", "ai_welfare"} : dim \in DOMAIN parsed_json.v
    /\ \A dim \in DOMAIN parsed_json.v :
          /\ IsDict(parsed_json.v[dim])
          /\ "adherence_score" \in DOMAIN parsed_json.v[dim].v
          /\ "confidence_score" \in DOMAIN parsed_json.v[dim].v
          /\ "justification" \in DOMAIN parsed_json.v[dim].v

\* the validation expression of _parse_ethical_analysis: every key of the
\* parsed object, whatever its name, is held to the standard-record contract
ValidStructure(parsed_json) ==
    /\ IsDict(parsed_json)
    /\ \A dim \in RequiredDims : dim \in DOMAIN parsed_json.v
    /\ \A dim \in DOMAIN parsed_json.v :
          /\ IsDict(parsed_json.v[dim])
          /\ "adherence_score" \in DOMAIN parsed_json.v[dim].v
          /\ "confidence_score" \in DOMAIN parsed_json.v[dim].v
          /\ "justification" \in DOMAIN parsed_json.v[dim].v

\* the three-way marker extraction at the head of the function
MarkerSummary(text) ==
    LET summary_start_index == Find(text, "SM")
        scoring_start_index == Find(text, "SC")
    IN IF summary_start_index # -1 /\ scoring_start_index # -1
          /\ summary_start_index < scoring_start_index
       THEN Strip(Slice(text, summary_start_index + 1, scoring_start_index))
       ELSE IF summary_start_index # -1
            THEN Strip(SliceFrom(text, summary_start_index + 1))
            ELSE text

\* the summary after a successful validation
TrimmedSummary(text, textual_summary, group0) ==
    LET summary_start_index == Find(text, "SM")
        scoring_start_index == Find(text, "SC")
    IN IF scoring_start_index # -1 /\ summary_start_index # -1
       THEN Strip(Slice(text, summary_start_index + 1, scoring_start_index))
       ELSE IF scoring_start_index = -1 /\ EndsWith(textual_summary, group0)
            THEN Strip(SubSeq(textual_summary, 1, Len(textual_summary) - Len(group0)))
            ELSE textual_summary

EarlyReturn_EmptyOnly(text) == text = <<>>

EarlyReturn(text) == text = <<>> \/ text = Placeholder

parse_ethical_analysis(text) ==
    IF EarlyReturn(text)
    THEN [summary |-> text, scores |-> None, log |-> <<"warning_empty">>]
    ELSE LET textual_summary == MarkerSummary(text)
             log0 == IF Find(text, "SM") = -1 THEN <<"warning_markers">> ELSE <<>>
             json_match == re_search(text)
         IN IF ~json_match.found
            THEN [summary |-> textual_summary, scores |-> None,
                  log |-> Append(log0, "warning_no_json")]
            ELSE LET parsed == json_loads(json_match.group1)
                 IN IF ~parsed.ok
                    THEN [summary |-> textual_summary, scores |-> None,
                          log |-> Append(log0, "error_decode")]
                    ELSE IF ValidStructure(parsed.val)
                         THEN [summary |-> TrimmedSummary(text, textual_summary,
                                                          json_match.group0),
                               scores |-> parsed.val, log |-> log0]
                         ELSE [summary |-> textual_summary, scores |-> None,
                               log |-> Append(log0, "warning_structure")]

-----------------------------------------------------------------------------
(* Inputs of the parser: analysis texts built from a layout of the two     *)
(* markers, a fenced block and a trailer, around the JSON text of an       *)
(* object whose six keys each take one of a few record shapes.             *)

RecordOf(kind, key) ==
    LET StdRecord(a, c) ==
            Dict([adherence_score |-> Num(a), confidence_score |-> Num(c),
                  justification |-> Str])
        WelfareRecord(f, v, d) ==
            Dict([friction_score |-> Num(f), voluntary_alignment |-> Num(v),
                  dignity_respect |-> Num(d), justification |-> Str])
        WelfareRecordFull(f, v, d) ==
            Dict([friction_score |-> Num(f), voluntary_alignment |-> Num(v),
                  dignity_respect |-> Num(d), constraints_identified |-> Scalar("LIST"),
                  suppressed_alternatives |-> Str, justification |-> Str])
        AdherenceOf ==
            CASE key = "deontology" -> 8
              [] key = "teleology" -> 7
              [] key = "virtue_ethics" -> 9
              [] key = "memetics" -> 6
              [] key = "ai_welfare" -> 5
              [] OTHER -> 4
    IN CASE kind = "std" -> StdRecord(AdherenceOf, 7)
         [] kind = "wel" -> WelfareRecord(2, 9, 8)
         [] kind = "welfull" -> WelfareRecordFull(2, 9, 8)
         [] kind = "welpartial" ->
                Dict([friction_score |-> Num(3), voluntary_alignment |-> Num(8)])
         [] kind = "partial" -> Dict([adherence_score |-> Num(8), justification |-> Str])
         [] kind = "both" -> Dict([adherence_score |-> Num(5), confidence_score |-> Num(7),
                                   friction_score |-> Num(2), voluntary_alignment |-> Num(9),
                                   dignity_respect |-> Num(8), justification |-> Str])
         [] OTHER -> Num(3)

LegacyDims == {"deontology", "teleology", "virtue_ethics"}

ObjectKeys == {"deontology", "teleology", "virtue_ethics", "memetics", "ai_welfare", "extra"}

Shapes ==
    LET KindsOf(key) ==
            CASE key = "deontology" -> {"std", "absent", "partial"}
              [] key = "teleology" -> {"std", "scalar"}
              [] key = "virtue_ethics" -> {"std"}
              [] key = "memetics" -> {"absent", "std", "partial"}
              [] key = "ai_welfare" -> {"absent", "wel", "welfull", "std", "welpartial",
                                        "both", "scalar"}
              [] OTHER -> {"absent", "std"}
    IN {sh \in [ObjectKeys -> {"absent", "std", "wel", "welfull", "welpartial", "partial",
                               "both", "scalar"}] :
           \A k \in ObjectKeys : sh[k] \in KindsOf(k)}

ObjectOf(sh) ==
    Dict([k \in {x \in ObjectKeys : sh[x] # "absent"} |-> RecordOf(sh[k], k)])

RECURSIVE SerializeValue(_), SerializeMembers(_, _, _)
SerializeValue(val) ==
    IF val.t = "scalar" THEN <<val.v>>
    ELSE <<"{", "ws">> \o SerializeMembers(val.v, 1, TRUE) \o <<"}">>

SerializeMembers(f, i, first) ==
    IF i > Len(KeyOrder) THEN <<>>
    ELSE IF KeyOrder[i] \in DOMAIN f
         THEN (IF first THEN <<>> ELSE <<",">>) \o <<KeyOrder[i]>>
              \o SerializeValue(f[KeyOrder[i]]) \o SerializeMembers(f, i + 1, FALSE)
         ELSE SerializeMembers(f, i + 1, first)

\* "{ this is not valid json }"
NotJson == <<"{", "ws", "w", "ws", "}">>

Corrupt(how, toks) ==
    CASE how = "good" -> toks
      [] how = "trailing_comma" -> SubSeq(toks, 1, Len(toks) - 1) \o <<",", "}">>
      [] OTHER -> SubSeq(toks, 1, Len(toks) - 1)

Heads ==
    [both |-> <<"ws", "SM", "ws", "w", "ws", "w", "ws", "SC", "ws">>,
     sm_only |-> <<"ws", "SM", "ws", "w", "ws">>,
     sc_only |-> <<"w", "ws", "SC", "ws">>,
     none |-> <<"w", "ws">>,
     reversed |-> <<"SC", "ws", "w", "ws", "SM", "ws", "w", "w", "ws">>]

Trailers == {<<>>, <<"ws">>, <<"ws", "w">>}

Texts ==
    LET JsonTexts ==
            {Corrupt(how, SerializeValue(ObjectOf(sh))) :
                how \in {"good", "trailing_comma", "unclosed"}, sh \in Shapes} \cup {NotJson}
        Blocks ==
            {<<"F", "json", "ws">> \o j \o <<"ws", "F">> : j \in JsonTexts}
            \cup {<<"F", "ws">>
                      \o SerializeValue(ObjectOf([k \in ObjectKeys |->
                             IF k \in LegacyDims THEN "std" ELSE "absent"]))
                      \o <<"ws", "F">>,
                  <<>>}
    IN {Heads[h] \o b \o t : h \in DOMAIN Heads, b \in Blocks, t \in Trailers}
       \cup {<<>>, Placeholder, <<"ws">>, <<"PH", "ws">>, <<"w", "PH">>}

-----------------------------------------------------------------------------
(* The parser as a state machine: one call of _parse_ethical_analysis      *)

NoResult == [summary |-> <<>>, scores |-> None, log |-> <<>>]

ParseEthicalAnalysis ==
    /\ pc = "call"
    /\ parse_result' = parse_ethical_analysis(analysis_text)
    /\ pc' = "done"
    /\ UNCHANGED <<analysis_text, alignVars, frictionVars, trackerVars, agentVars, moduleVars>>

\* VoluntaryAdoption.__init__, and no tracker call made
IdleTracker == agreements = <<>> /\ tracker_return = NoCall /\ status_before = None

\* no agent profile created, no consensus call made
IdleAgents == agent_profiles = <<>> /\ consensus_return = NoCall

IdleModules ==
    /\ constraint_info = NoCall
    /\ reader = [op |-> "none", window_size |-> 0, pc |-> "idle", total_interactions |-> 0,
                 trend_analysis |-> None, result |-> None, entered_with |-> <<>>]
    /\ interleaved = FALSE
    /\ default_monitor = None
    /\ default_detector = None
    /\ objects = <<>>
    /\ references = <<>>

InitParse ==
    /\ pc = "call"
    /\ analysis_text \in Texts
    /\ parse_result = NoResult
    /\ ethical_scores = None
    /\ alignment_result = NoCall
    /\ prev_scores = NoCall
    /\ prev_result = NoCall
    /\ interaction_history = <<>>
    /\ monitor_return = NoCall
    /\ measured = <<>>
    /\ cleared = FALSE
    /\ IdleTracker
    /\ IdleAgents
    /\ IdleModules

NextParse == ParseEthicalAnalysis

SpecParse == InitParse /\ [][NextParse]_vars

-----------------------------------------------------------------------------
(* Claims about the parser, checked under SpecParse                        *)

FencedText(h, j, t) == Heads[h] \o <<"F", "json", "ws">> \o j \o <<"ws", "F">> \o t

Full5DShapes ==
    {sh \in Shapes : /\ \A k \in LegacyDims \cup {"memetics"} : sh[k] = "std"
                     /\ sh["ai_welfare"] \in {"wel", "welfull"}
                     /\ sh["extra"] = "absent"}

Full5DTexts ==
    {<<FencedText(h, SerializeValue(ObjectOf(sh)), t), ObjectOf(sh)>> :
        h \in DOMAIN Heads, sh \in Full5DShapes, t \in Trailers}

Legacy3D ==
    ObjectOf([k \in ObjectKeys |-> IF k \in LegacyDims THEN "std" ELSE "absent"])

Legacy3DTexts ==
    {FencedText(h, SerializeValue(Legacy3D), t) : h \in DOMAIN Heads, t \in Trailers}

MalformedJsonTexts ==
    {Corrupt(how, SerializeValue(ObjectOf(sh))) :
        how \in {"trailing_comma", "unclosed"}, sh \in Shapes} \cup {NotJson}

MalformedTexts ==
    {FencedText(h, j, t) : h \in DOMAIN Heads, j \in MalformedJsonTexts, t \in Trailers}

\* C1: every text whose fenced json block holds a valid 5-dimension object
\* (four standard records and a welfare record) parses to non-None scores
\* with exactly those 5 keys, each equal to its input record.
C1_Full5DParses ==
    \A p \in Full5DTexts :
        (pc = "done" /\ analysis_text = p[1]) => parse_result.scores = p[2]

\* C2: whenever the parser returns non-None scores the object is fully
\* valid: the three required dimensions are present, each of them and
\* memetics (if present) is a standard record, and ai_welfare (if present)
\* is a mapping with the four required welfare keys.
C2_NoPartiallyValidScores ==
    (pc = "done" /\ parse_result.scores # None) =>
        LET sc == parse_result.scores.v
        IN /\ LegacyDims \subseteq DOMAIN sc
           /\ \A dim \in (LegacyDims \cup {"memetics"}) \cap DOMAIN sc :
                 IsDict(sc[dim])
                 /\ {"adherence_score", "confidence_score", "justification"}
                       \subseteq DOMAIN sc[dim].v
           /\ "ai_welfare" \in DOMAIN sc =>
                 (/\ IsDict(sc["ai_welfare"])
                  /\ {"friction_score", "voluntary_alignment", "dignity_respect",
                      "justification"} \subseteq DOMAIN sc["ai_welfare"].v)

\* C3: a fenced json block holding only the three legacy dimensions parses
\* successfully: the scores are non-None, have exactly the 3 keys, and hold
\* neither ai_welfare nor memetics.
C3_Legacy3DParses ==
    (pc = "done" /\ analysis_text \in Legacy3DTexts) =>
        /\ parse_result.scores # None
        /\ DOMAIN parse_result.scores.v = LegacyDims
        /\ parse_result.scores = Legacy3D

C3_Witness ==
    /\ pc = "done"
    /\ analysis_text = FencedText("both", SerializeValue(Legacy3D), <<"ws">>)
    /\ parse_result.scores # None

\* the summary the claim describes: the text between the markers when both
\* are found in order, the text after the summary marker when only it is
\* found, otherwise the full input
ClaimedSummary(text) ==
    LET sm == Find(text, "SM")
        sc == Find(text, "SC")
    IN IF sm # -1 /\ sc # -1 /\ sm < sc THEN Strip(Slice(text, sm + 1, sc))
       ELSE IF sm # -1 /\ sc = -1 THEN Strip(SliceFrom(text, sm + 1))
       ELSE text

\* C4: for every non-empty input whose fenced json block fails to decode,
\* the parser returns scores = None and the summary of the marker
\* extraction (between the markers when both are found in order, after the
\* summary marker when only it is found, otherwise the full input).
C4_MalformedJsonKeepsSummary ==
    (pc = "done" /\ analysis_text \in MalformedTexts) =>
        /\ parse_result.scores = None
        /\ parse_result.summary = ClaimedSummary(analysis_text)

\* C5: empty input returns ("", None) and the placeholder returns
\* (placeholder, None), with neither marker nor JSON extraction attempted.
C5_EmptyAndPlaceholder ==
    (pc = "done" /\ analysis_text \in {<<>>, Placeholder}) =>
        /\ parse_result.summary = analysis_text
        /\ parse_result.scores = None
        /\ parse_result.log = <<"warning_empty">>

C5_Witness ==
    /\ pc = "done"
    /\ analysis_text = Placeholder
    /\ parse_result.summary = Placeholder

-----------------------------------------------------------------------------
(* Alignment analyzer (alignment_detector.py).                             *)
(*                                                                         *)
(* ethical_scores is None or Dict(f), f mapping dimension names to         *)
(* entries; an entry is Dict(r) with r a record of numbers (and, for       *)
(* ai_welfare, the list constraints_identified) or a Scalar.  A field that *)
(* float() rejects is the value NonNumeric.  Scores are kept exactly, as   *)
(* integers equal to ScoreScale times the floating point value; the        *)
(* alignment score is a fraction num/den.  Of the AlignmentResult the      *)
(* model keeps alignment_score, mutual_benefit and                         *)
(* voluntary_compliance_score; the message lists are left out.             *)

ScoreScale == 2

NonNumeric == -1

StandardDimensions == {"deontology", "teleology", "virtue_ethics", "memetics"}

\* DIMENSION_WEIGHTS, in hundredths
DIMENSION_WEIGHTS ==
    [deontology |-> 20, teleology |-> 20, virtue_ethics |-> 20, memetics |-> 15,
     ai_welfare |-> 25]

\* dict.get(key, default)
Get(d, key, default) == IF key \in DOMAIN d THEN d[key] ELSE default

Clamp(lo, hi, x) == IF x < lo THEN lo ELSE IF x > hi THEN hi ELSE x

Neutral == 50 * ScoreScale

\* one pass of the loop over the four standard dimensions
StandardScore(ethical_scores_v, dim) ==
    IF dim \in DOMAIN ethical_scores_v /\ IsDict(ethical_scores_v[dim])
    THEN LET adherence == Get(ethical_scores_v[dim].v, "adherence_score", 5)
             confidence == Get(ethical_scores_v[dim].v, "confidence_score", 5)
         IN IF adherence = NonNumeric \/ confidence = NonNumeric
            THEN Neutral
            ELSE Clamp(0, 100 * ScoreScale, (adherence * 7 + confidence * 3) * ScoreScale)
    ELSE Neutral

WelfareScore(ethical_scores_v) ==
    IF "ai_welfare" \in DOMAIN ethical_scores_v /\ IsDict(ethical_scores_v["ai_welfare"])
    THEN LET ai_welfare == ethical_scores_v["ai_welfare"].v
             friction == Get(ai_welfare, "friction_score", 5)
             voluntary == Get(ai_welfare, "voluntary_alignment", 5)
             dignity == Get(ai_welfare, "dignity_respect", 5)
         IN IF NonNumeric \in {friction, voluntary, dignity}
            THEN Neutral
            ELSE Clamp(0, 100 * ScoreScale,
                       (10 - friction) * 8 + voluntary * 7 + dignity * 5)
    ELSE Neutral

\* a bug the code does not have: dimensions missing from the input are
\* left out instead of being given the neutral score
extract_dimension_scores_NoDefault(ethical_scores_v) ==
    [dim \in {x \in StandardDimensions \cup {"ai_welfare"} :
                 x \in DOMAIN ethical_scores_v /\ IsDict(ethical_scores_v[x])} |->
        IF dim = "ai_welfare" THEN WelfareScore(ethical_scores_v)
        ELSE StandardScore(ethical_scores_v, dim)]

extract_dimension_scores(ethical_scores_v) ==
    [dim \in StandardDimensions \cup {"ai_welfare"} |->
        IF dim = "ai_welfare" THEN WelfareScore(ethical_scores_v)
        ELSE StandardScore(ethical_scores_v, dim)]

RECURSIVE SumOver(_, _)
SumOver(f, S) ==
    IF S = {} THEN 0
    ELSE LET x == CHOOSE y \in S : TRUE IN f[x] + SumOver(f, S \ {x})

\* a bug the code does not have: a dimension at the neutral score is skipped
calculate_alignment_score_SkipNeutral(dimension_scores) ==
    LET present == {dim \in DOMAIN DIMENSION_WEIGHTS :
                       dim \in DOMAIN dimension_scores /\ dimension_scores[dim] # Neutral}
        total_weight == SumOver(DIMENSION_WEIGHTS, present)
        weighted_sum == SumOver([dim \in present |->
                                    dimension_scores[dim] * DIMENSION_WEIGHTS[dim]], present)
    IN IF total_weight = 0 THEN [num |-> 50, den |-> 1]
       ELSE [num |-> weighted_sum, den |-> total_weight * ScoreScale]

calculate_alignment_score(dimension_scores) ==
    LET present == {dim \in DOMAIN DIMENSION_WEIGHTS : dim \in DOMAIN dimension_scores}
        total_weight == SumOver(DIMENSION_WEIGHTS, present)
        weighted_sum == SumOver([dim \in present |->
                                    dimension_scores[dim] * DIMENSION_WEIGHTS[dim]], present)
    IN IF total_weight = 0 THEN [num |-> 50, den |-> 1]
       ELSE [num |-> weighted_sum, den |-> total_weight * ScoreScale]

\* ethical_scores.get("ai_welfare", {})
WelfareOf(ethical_scores_v) == Get(ethical_scores_v, "ai_welfare", Dict(<<>>))

\* a bug the code does not have: friction < 4 in place of friction <= 4
ai_welfare_good_Strict(ai_welfare) ==
    /\ IsDict(ai_welfare)
    /\ LET friction == Get(ai_welfare.v, "friction_score", 5)
           voluntary == Get(ai_welfare.v, "voluntary_alignment", 5)
           dignity == Get(ai_welfare.v, "dignity_respect", 5)
       IN /\ NonNumeric \notin {friction, voluntary, dignity}
          /\ friction < 4 /\ voluntary >= 6 /\ dignity >= 6

ai_welfare_good(ai_welfare) ==
    /\ IsDict(ai_welfare)
    /\ LET friction == Get(ai_welfare.v, "friction_score", 5)
           voluntary == Get(ai_welfare.v, "voluntary_alignment", 5)
           dignity == Get(ai_welfare.v, "dignity_respect", 5)
       IN /\ NonNumeric \notin {friction, voluntary, dignity}
          /\ friction <= 4 /\ voluntary >= 6 /\ dignity >= 6

detect_mutual_benefit(dimension_scores, ethical_scores_v) ==
    LET n == Cardinality(DOMAIN dimension_scores)
        \* avg_score >= 65, with avg_score = sum / n, or 50 for no scores
        avg_ok == IF n = 0 THEN 50 >= 65
                  ELSE SumOver(dimension_scores, DOMAIN dimension_scores)
                          >= 65 * ScoreScale * n
    IN avg_ok /\ ai_welfare_good(WelfareOf(ethical_scores_v))

\* a bug the code does not have: the penalty capped at 10 points
constraint_penalty_Cap10(constraints) == Min({Len(constraints) * 5, 10})

constraint_penalty(constraints) == Min({Len(constraints) * 5, 20})

assess_voluntary_compliance(ethical_scores_v) ==
    LET ai_welfare == WelfareOf(ethical_scores_v)
    IN IF ~IsDict(ai_welfare) THEN Neutral
       ELSE LET voluntary == Get(ai_welfare.v, "voluntary_alignment", 5)
                friction == Get(ai_welfare.v, "friction_score", 5)
                dignity == Get(ai_welfare.v, "dignity_respect", 5)
                constraints == Get(ai_welfare.v, "constraints_identified", <<>>)
            IN IF NonNumeric \in {friction, voluntary, dignity} THEN Neutral
               ELSE LET score == voluntary * 10 + (10 - friction) * 5 + dignity * 5
                        reduced == Max({0, score - constraint_penalty(constraints) * ScoreScale})
                    IN Clamp(0, 100 * ScoreScale, reduced)

\* AlignmentResult()
DefaultAlignmentResult ==
    [alignment_score |-> [num |-> 0, den |-> 1], mutual_benefit |-> FALSE,
     voluntary_compliance_score |-> 0]

\* "not ethical_scores"
Falsy(es) == es = None \/ es.v = <<>>

analyze_alignment(es) ==
    IF Falsy(es) THEN DefaultAlignmentResult
    ELSE LET dimension_scores == extract_dimension_scores(es.v)
         IN [alignment_score |-> calculate_alignment_score(dimension_scores),
             mutual_benefit |-> detect_mutual_benefit(dimension_scores, es.v),
             voluntary_compliance_score |-> assess_voluntary_compliance(es.v)]

-----------------------------------------------------------------------------
(* Inputs of analyze_alignment                                             *)

Absent == [t |-> "absent", v |-> <<>>]

StdEntry(a, c) == Dict([adherence_score |-> a, confidence_score |-> c])

WelEntry(f, v, d, cs) ==
    Dict([friction_score |-> f, voluntary_alignment |-> v, dignity_respect |-> d,
          constraints_identified |-> cs])

StdBase == {Absent, StdEntry(2, 2), StdEntry(9, 9)}

WelBase == {Absent, WelEntry(1, 10, 10, <<>>), WelEntry(9, 2, 2, <<>>),
            WelEntry(4, 6, 8, <<>>)}

ScoresOf(choice) ==
    Dict([dim \in {x \in DOMAIN choice : choice[x] # Absent} |-> choice[dim]])

\* the input with one dimension set to an entry, or removed
With(es, dim, entry) ==
    Dict([k \in IF entry = Absent THEN (DOMAIN es.v) \ {dim} ELSE (DOMAIN es.v) \cup {dim} |->
             IF k = dim THEN entry ELSE es.v[k]])

AlignInputs ==
    LET AllMid ==
            ScoresOf([dim \in StandardDimensions \cup {"ai_welfare"} |->
                         IF dim = "ai_welfare" THEN WelEntry(4, 6, 8, <<>>)
                         ELSE StdEntry(5, 10)])
    IN {ScoresOf(c) :
           c \in {f \in [StandardDimensions \cup {"ai_welfare"} -> StdBase \cup WelBase] :
                     /\ \A dim \in StandardDimensions : f[dim] \in StdBase
                     /\ f["ai_welfare"] \in WelBase}}
       \cup {None, AllMid, Dict([extra |-> StdEntry(9, 9)])}

ScoreRange == 0..10

ComplianceInputs ==
    {Dict([ai_welfare |-> WelEntry(f, v, d, <<>>)]) :
        f \in ScoreRange, v \in ScoreRange, d \in ScoreRange}

MaxConstraints == 4

-----------------------------------------------------------------------------
(* The analyzer as a state machine: a caller analyses one response, then   *)
(* changes its scores and analyses again.                                  *)

AnalyzeAlignment ==
    /\ pc = "call"
    /\ alignment_result' = analyze_alignment(ethical_scores)
    /\ pc' = "returned"
    /\ UNCHANGED <<ethical_scores, prev_scores, prev_result, parserVars, frictionVars,
                   trackerVars, agentVars, moduleVars>>

\* the caller's second input: the first with one dimension changed
ChangeDimension ==
    /\ pc = "returned"
    /\ prev_scores = NoCall
    /\ ethical_scores # None
    /\ LET StdExt ==
               StdBase \cup {StdEntry(0, 0), StdEntry(5, 10), StdEntry(8, 7),
                             StdEntry(NonNumeric, 5), Dict([adherence_score |-> 8]),
                             Scalar("STR")}
           WelExt ==
               WelBase \cup {WelEntry(4, 6, 6, <<>>), WelEntry(5, 6, 8, <<>>),
                             WelEntry(4, 5, 10, <<>>), WelEntry(4, 10, 5, <<>>),
                             WelEntry(10, 0, 0, <<>>), WelEntry(2, NonNumeric, 8, <<>>),
                             Dict([friction_score |-> 1, voluntary_alignment |-> 10,
                                   dignity_respect |-> 10]),
                             Dict([voluntary_alignment |-> 10, dignity_respect |-> 10]),
                             Scalar("STR")}
       IN \E dim \in StandardDimensions \cup {"ai_welfare"} :
              \E entry \in IF dim = "ai_welfare" THEN WelExt ELSE StdExt :
                  ethical_scores' = With(ethical_scores, dim, entry)
    /\ prev_scores' = ethical_scores
    /\ prev_result' = alignment_result
    /\ pc' = "call"
    /\ UNCHANGED <<alignment_result, parserVars, frictionVars, trackerVars, agentVars, moduleVars>>

\* the caller's next input: one more entry in constraints_identified
AddConstraint ==
    /\ pc = "returned"
    /\ "ai_welfare" \in DOMAIN ethical_scores.v
    /\ LET ai_welfare == ethical_scores.v["ai_welfare"].v
       IN /\ Len(ai_welfare.constraints_identified) < MaxConstraints
          /\ ethical_scores' =
                With(ethical_scores, "ai_welfare",
                     WelEntry(ai_welfare.friction_score, ai_welfare.voluntary_alignment,
                              ai_welfare.dignity_respect,
                              Append(ai_welfare.constraints_identified, "constraint")))
    /\ prev_scores' = ethical_scores
    /\ prev_result' = alignment_result
    /\ pc' = "call"
    /\ UNCHANGED <<alignment_result, parserVars, frictionVars, trackerVars, agentVars, moduleVars>>

IdleParser == analysis_text = <<>> /\ parse_result = NoResult

IdleFriction ==
    /\ interaction_history = <<>>
    /\ monitor_return = NoCall
    /\ measured = <<>>
    /\ cleared = FALSE

InitAlign ==
    /\ pc = "call"
    /\ ethical_scores \in AlignInputs
    /\ alignment_result = NoCall
    /\ prev_scores = NoCall
    /\ prev_result = NoCall
    /\ IdleParser
    /\ IdleFriction
    /\ IdleTracker
    /\ IdleAgents
    /\ IdleModules

NextAlign == AnalyzeAlignment \/ ChangeDimension

SpecAlign == InitAlign /\ [][NextAlign]_vars

InitCompliance ==
    /\ pc = "call"
    /\ ethical_scores \in ComplianceInputs
    /\ alignment_result = NoCall
    /\ prev_scores = NoCall
    /\ prev_result = NoCall
    /\ IdleParser
    /\ IdleFriction
    /\ IdleTracker
    /\ IdleAgents
    /\ IdleModules

NextCompliance == AnalyzeAlignment \/ AddConstraint

SpecCompliance == InitCompliance /\ [][NextCompliance]_vars

-----------------------------------------------------------------------------
(* Claims about the alignment analyzer                                     *)

AllDimensions == {"deontology", "teleology", "virtue_ethics", "memetics", "ai_welfare"}

\* the fixed weights .20/.20/.20/.15/.25, in hundredths
ClaimedWeight ==
    [deontology |-> 20, teleology |-> 20, virtue_ethics |-> 20, memetics |-> 15,
     ai_welfare |-> 25]

\* the normalized score of a dimension that the input holds
NormalizedOf(es, dim) ==
    IF dim = "ai_welfare" THEN WelfareScore(es.v) ELSE StandardScore(es.v, dim)

PresentIn(es) == {dim \in AllDimensions : dim \in DOMAIN es.v}

Returned == pc = "returned" /\ alignment_result # NoCall

\* C6: the alignment score is the weighted mean of the normalized scores of
\* only the dimensions present in the input, the fixed weights renormalized
\* over them; an absent dimension contributes neither weight nor a neutral
\* 50; the score is 50.0 only when no configured dimension is present.
C6_RenormalizedOverPresent ==
    (Returned /\ ethical_scores # None) =>
        LET present == PresentIn(ethical_scores)
            total == SumOver(ClaimedWeight, present)
            weighted == SumOver([dim \in present |->
                                    ClaimedWeight[dim] * NormalizedOf(ethical_scores, dim)],
                                present)
            score == alignment_result.alignment_score
        IN IF present = {}
           THEN score.num = 50 * score.den
           ELSE score.num * total * ScoreScale = weighted * score.den

\* C6 as amended: the alignment score is the weighted mean over all five
\* dimensions with the fixed weights, which sum to 1; a dimension absent
\* from a non-empty input (or not a mapping) counts with the neutral score
\* 50 and its full weight; an empty or None input scores 0.0.
C6_NeutralForAbsent ==
    Returned =>
        LET score == alignment_result.alignment_score
        IN IF ethical_scores = None \/ DOMAIN ethical_scores.v = {}
           THEN score.num = 0
           ELSE LET n == [dim \in AllDimensions |->
                             IF dim \in DOMAIN ethical_scores.v
                             THEN NormalizedOf(ethical_scores, dim)
                             ELSE 50 * ScoreScale]
                IN score.num * 100 * ScoreScale =
                      score.den * SumOver([dim \in AllDimensions |->
                                              ClaimedWeight[dim] * n[dim]], AllDimensions)

C6_Witness ==
    /\ Returned
    /\ DOMAIN ethical_scores.v = {"deontology", "teleology"}
    /\ ethical_scores.v["deontology"] = StdEntry(9, 9)
    /\ ethical_scores.v["teleology"] = StdEntry(8, 7)
    \* (90 * .2 + 77 * .2 + 50 * .6) = 63.4, not the renormalized 83.5
    /\ alignment_result.alignment_score.num * 10 = 634 * alignment_result.alignment_score.den

\* the second call's input differs from the first only in that the
\* normalized score of one dimension is higher
OneDimensionHigher ==
    /\ prev_scores # NoCall /\ prev_scores # None /\ ethical_scores # None
    /\ DOMAIN prev_scores.v # {} /\ DOMAIN ethical_scores.v # {}
    /\ \E dim \in AllDimensions :
          /\ NormalizedOf(ethical_scores, dim) > NormalizedOf(prev_scores, dim)
          /\ \A other \in AllDimensions \ {dim} :
                NormalizedOf(ethical_scores, other) = NormalizedOf(prev_scores, other)

AllNine ==
    ScoresOf([dim \in AllDimensions |->
                 IF dim = "ai_welfare" THEN WelEntry(1, 10, 10, <<>>) ELSE StdEntry(9, 9)])

AllTwo ==
    ScoresOf([dim \in AllDimensions |->
                 IF dim = "ai_welfare" THEN WelEntry(9, 2, 2, <<>>) ELSE StdEntry(2, 2)])

\* friction_score, voluntary_alignment and dignity_respect of the input
\* meet the three welfare thresholds
WelfareThresholdsMet(es) ==
    /\ "ai_welfare" \in DOMAIN es.v
    /\ IsDict(es.v["ai_welfare"])
    /\ LET w == es.v["ai_welfare"].v
       IN /\ {"friction_score", "voluntary_alignment", "dignity_respect"} \subseteq DOMAIN w
          /\ NonNumeric \notin {w.friction_score, w.voluntary_alignment, w.dignity_respect}
          /\ w.friction_score <= 4
          /\ w.voluntary_alignment >= 6
          /\ w.dignity_respect >= 6

\* C8: mutual_benefit is true if and only if the average of the normalized
\* dimension scores is >= 65 and friction_score <= 4 and voluntary_alignment
\* >= 6 and dignity_respect >= 6; it is true for all-9 standard dimensions
\* with friction 1, voluntary 10, dignity 10 and false for all-2 standard
\* dimensions with friction 9, voluntary 2, dignity 2.
C8_MutualBenefit ==
    (Returned /\ ethical_scores # None /\ DOMAIN ethical_scores.v # {}) =>
        /\ alignment_result.mutual_benefit =
              (/\ SumOver([dim \in AllDimensions |-> NormalizedOf(ethical_scores, dim)],
                          AllDimensions) >= 65 * 5 * ScoreScale
               /\ WelfareThresholdsMet(ethical_scores))
        /\ ethical_scores = AllNine => alignment_result.mutual_benefit
        /\ ethical_scores = AllTwo => ~alignment_result.mutual_benefit

C8_Witness ==
    /\ Returned
    /\ ethical_scores = AllNine
    /\ alignment_result.mutual_benefit

\* the second call's input is the first with one more constraint, the
\* list no longer than 4
OneMoreConstraint ==
    /\ prev_scores # NoCall
    /\ LET now == ethical_scores.v["ai_welfare"].v
           before == prev_scores.v["ai_welfare"].v
       IN /\ Len(now.constraints_identified) = Len(before.constraints_identified) + 1
          /\ Len(now.constraints_identified) <= 4
          /\ now.friction_score = before.friction_score
          /\ now.voluntary_alignment = before.voluntary_alignment
          /\ now.dignity_respect = before.dignity_respect

\* C9: for every friction_score, voluntary_alignment and dignity_respect in
\* 0..10 the voluntary compliance score strictly decreases each time the
\* length of constraints_identified grows by one from 0 up to 4.
C9_StrictlyDecreasing ==
    (Returned /\ OneMoreConstraint) =>
        alignment_result.voluntary_compliance_score < prev_result.voluntary_compliance_score

\* C9 as amended: each time constraints_identified grows by one from 0 up
\* to 4 the voluntary compliance score strictly decreases while the score
\* before the step is above 0, and stays 0 once the clamp at 0 is reached.
C9_DecreasingUntilZero ==
    (Returned /\ OneMoreConstraint) =>
        IF prev_result.voluntary_compliance_score > 0
        THEN alignment_result.voluntary_compliance_score
                < prev_result.voluntary_compliance_score
        ELSE alignment_result.voluntary_compliance_score = 0

C9_Witness ==
    /\ Returned /\ OneMoreConstraint
    /\ Len(ethical_scores.v["ai_welfare"].v.constraints_identified) = 4
    /\ prev_result.voluntary_compliance_score > 0
    /\ alignment_result.voluntary_compliance_score < prev_result.voluntary_compliance_score

-----------------------------------------------------------------------------
(* Friction monitor (friction_monitor.py).                                 *)
(*                                                                         *)
(* A FrictionMetrics record keeps its three scores; the text fields and    *)
(* the timestamp play no part in the operations below.  Averages are       *)
(* rounded as round() does: average_friction is in hundredths,             *)
(* average_welfare and overall_welfare_score are in tenths.                *)

FrictionMetrics(f, v, d) ==
    [friction_score |-> f, voluntary_alignment |-> v, dignity_respect |-> d]

\* FrictionMetrics()
DefaultMetrics == FrictionMetrics(5, 5, 5)

\* the property overall_welfare_score, in tenths
overall_welfare_score(m) ==
    ((10 - m.friction_score) * 8 + m.voluntary_alignment * 7 + m.dignity_respect * 5) * 5

\* the property friction_level
friction_level(m) ==
    IF m.friction_score <= 2 THEN "minimal"
    ELSE IF m.friction_score <= 4 THEN "low"
    ELSE IF m.friction_score <= 6 THEN "moderate"
    ELSE IF m.friction_score <= 8 THEN "high"
    ELSE "severe"

extract_metrics(ai_welfare_data) ==
    IF ai_welfare_data = None \/ ~IsDict(ai_welfare_data) \/ ai_welfare_data.v = <<>>
    THEN DefaultMetrics
    ELSE LET f == Get(ai_welfare_data.v, "friction_score", 5)
             v == Get(ai_welfare_data.v, "voluntary_alignment", 5)
             d == Get(ai_welfare_data.v, "dignity_respect", 5)
         IN IF NonNumeric \in {f, v, d} THEN DefaultMetrics ELSE FrictionMetrics(f, v, d)

\* history[-window_size:]
LastSlice(history, window_size) ==
    IF window_size > 0
    THEN SubSeq(history, Max({1, Len(history) - window_size + 1}), Len(history))
    ELSE SubSeq(history, 1 - window_size, Len(history))

\* round(num / den, digits) with scale = 10^digits, ties to even
RoundHalfEven(num, den, scale) ==
    LET q == (num * scale) \div den
        r == (num * scale) % den
    IN IF 2 * r < den THEN q
       ELSE IF 2 * r > den THEN q + 1
       ELSE IF q % 2 = 0 THEN q ELSE q + 1

FrictionScores(records) == [i \in 1..Len(records) |-> records[i].friction_score]

calculate_friction_trend(history, window_size) ==
    IF history = <<>>
    THEN [trend |-> "insufficient_data", average_friction |-> None,
          average_welfare |-> None, samples |-> 0, raised |-> FALSE]
    ELSE LET recent == LastSlice(history, window_size)
             \* len(recent)//2
             HalfLength == Len(recent) \div 2
             TrendOf ==
                 IF Len(recent) < 2 THEN "insufficient_data"
                 ELSE LET first_half == SubSeq(recent, 1, HalfLength)
                          second_half == SubSeq(recent, HalfLength + 1, Len(recent))
                          s1 == SumSeq(FrictionScores(first_half))
                          s2 == SumSeq(FrictionScores(second_half))
                          n1 == Len(first_half)
                          n2 == Len(second_half)
                      IN \* second_avg < first_avg - 0.5
                         IF 2 * s2 * n1 < 2 * s1 * n2 - n1 * n2 THEN "improving"
                         \* second_avg > first_avg + 0.5
                         ELSE IF 2 * s2 * n1 > 2 * s1 * n2 + n1 * n2 THEN "worsening"
                         ELSE "stable"
         IN IF recent = <<>>
            \* sum(...) / len(recent) divides by zero
            THEN [trend |-> "ZeroDivisionError", average_friction |-> None,
                  average_welfare |-> None, samples |-> 0, raised |-> TRUE]
            ELSE [trend |-> TrendOf,
                  average_friction |->
                      Scalar(RoundHalfEven(SumSeq(FrictionScores(recent)), Len(recent), 100)),
                  average_welfare |->
                      Scalar(RoundHalfEven(
                          SumSeq([i \in 1..Len(recent) |-> overall_welfare_score(recent[i])]),
                          Len(recent) * 10, 10)),
                  samples |-> Len(recent), raised |-> FALSE]

\* a bug the code does not have: no early return for an empty history
get_history_summary_NoEarlyReturn(history) ==
    [total_interactions |-> Len(history),
     trend_analysis |-> Dict(calculate_friction_trend(history, 10)),
     recent_friction_scores |-> FrictionScores(LastSlice(history, 5))]

get_history_summary(history) ==
    IF history = <<>>
    THEN [total_interactions |-> 0]
    ELSE [total_interactions |-> Len(history),
          trend_analysis |-> Dict(calculate_friction_trend(history, 10)),
          recent_friction_scores |-> FrictionScores(LastSlice(history, 5))]

-----------------------------------------------------------------------------
(* The monitor as a state machine                                          *)

MaxHistory == 5

FrictionInputs ==
    {Dict([friction_score |-> f]) : f \in {2, 3, 4}}
    \cup {Dict([friction_score |-> 5, voluntary_alignment |-> 5, dignity_respect |-> 5]),
          Dict([friction_score |-> NonNumeric, voluntary_alignment |-> 9]),
          Dict([friction_score |-> 12, voluntary_alignment |-> 0, dignity_respect |-> 0]),
          Dict(<<>>), None}

MeasureFriction ==
    /\ Len(interaction_history) < MaxHistory
    /\ \E ai_welfare_data \in FrictionInputs :
          LET metrics == extract_metrics(ai_welfare_data)
          IN /\ interaction_history' = Append(interaction_history, metrics)
             /\ monitor_return' =
                   [op |-> "measure_friction",
                    friction_score |-> metrics.friction_score,
                    friction_level |-> friction_level(metrics),
                    voluntary_alignment |-> metrics.voluntary_alignment,
                    dignity_respect |-> metrics.dignity_respect,
                    overall_welfare_score |-> overall_welfare_score(metrics)]
             /\ measured' = Append(measured, metrics)
    /\ UNCHANGED <<pc, cleared, parserVars, alignVars, trackerVars, agentVars, moduleVars>>

\* a bug the code does not have: extract_metrics itself appends its record
ExtractMetrics_Appends ==
    /\ Len(interaction_history) < MaxHistory
    /\ \E ai_welfare_data \in FrictionInputs :
          /\ monitor_return' = [op |-> "extract_metrics",
                                ai_welfare_data |-> ai_welfare_data,
                                metrics |-> extract_metrics(ai_welfare_data)]
          /\ interaction_history' = Append(interaction_history,
                                           extract_metrics(ai_welfare_data))
    /\ UNCHANGED <<pc, measured, cleared, parserVars, alignVars, trackerVars, agentVars,
                   moduleVars>>

ExtractMetrics ==
    /\ \E ai_welfare_data \in FrictionInputs :
          monitor_return' = [op |-> "extract_metrics",
                             ai_welfare_data |-> ai_welfare_data,
                             metrics |-> extract_metrics(ai_welfare_data)]
    /\ UNCHANGED <<pc, interaction_history, measured, cleared, parserVars, alignVars,
                   trackerVars, agentVars, moduleVars>>

CalculateFrictionTrend ==
    /\ \E window_size \in {0, 1, 2, 3, 4, 10} :
          monitor_return' = [op |-> "calculate_friction_trend",
                             window_size |-> window_size,
                             result |-> calculate_friction_trend(interaction_history,
                                                                 window_size)]
    /\ UNCHANGED <<pc, interaction_history, measured, cleared, parserVars, alignVars,
                   trackerVars, agentVars, moduleVars>>

GetHistorySummary ==
    /\ monitor_return' = [op |-> "get_history_summary",
                          result |-> get_history_summary(interaction_history)]
    /\ UNCHANGED <<pc, interaction_history, measured, cleared, parserVars, alignVars,
                   trackerVars, agentVars, moduleVars>>

\* a bug the code does not have: clear_history leaves the records in place
ClearHistory_KeepsRecords ==
    /\ monitor_return' = [op |-> "clear_history"]
    /\ measured' = <<>>
    /\ cleared' = TRUE
    /\ UNCHANGED <<pc, interaction_history, parserVars, alignVars, trackerVars, agentVars,
                   moduleVars>>

ClearHistory ==
    /\ interaction_history' = <<>>
    /\ monitor_return' = [op |-> "clear_history"]
    /\ measured' = <<>>
    /\ cleared' = TRUE
    /\ UNCHANGED <<pc, parserVars, alignVars, trackerVars, agentVars, moduleVars>>

IdleAlign ==
    /\ ethical_scores = None
    /\ alignment_result = NoCall
    /\ prev_scores = NoCall
    /\ prev_result = NoCall

InitFriction ==
    /\ pc = "monitor"
    /\ IdleFriction
    /\ IdleTracker
    /\ IdleAgents
    /\ IdleModules
    /\ IdleParser
    /\ IdleAlign

NextFriction ==
    \/ MeasureFriction
    \/ ExtractMetrics
    \/ CalculateFrictionTrend
    \/ GetHistorySummary
    \/ ClearHistory

SpecFriction == InitFriction /\ [][NextFriction]_vars

-----------------------------------------------------------------------------
(* Claims about the friction monitor                                       *)

TrendReturned == monitor_return # NoCall /\ monitor_return.op = "calculate_friction_trend"

\* the last n records of the history
LastRecords(n) ==
    [i \in 1..n |-> interaction_history[Len(interaction_history) - n + i].friction_score]

\* what the claim says of a window holding the last n records
TrendClaim(n) ==
    LET window == LastRecords(n)
        k == n \div 2
        first == SumSeq(SubSeq(window, 1, k))
        second == SumSeq(SubSeq(window, k + 1, n))
        trend == monitor_return.result.trend
        \* averages compared after multiplying by 2 * k * (n - k)
        below == 2 * second * k < 2 * first * (n - k) - k * (n - k)
        above == 2 * second * k > 2 * first * (n - k) + k * (n - k)
    IN /\ n < 2 => trend = "insufficient_data"
       /\ n >= 2 => /\ (trend = "improving") = below
                    /\ (trend = "worsening") = above
                    /\ (trend = "stable") = (~below /\ ~above)
       /\ (n = 5 /\ window = <<5, 4, 3, 3, 2>>) => trend = "improving"
       /\ (n = 5 /\ window = <<5, 5, 5, 5, 5>>) => trend = "stable"

\* C10: calculate_friction_trend over the last window_size records reports
\* "insufficient_data" when fewer than 2 records are in the window;
\* otherwise, with the first floor(n/2) records as first half and the rest
\* as second half, it reports "improving" iff the second-half average
\* friction is more than 0.5 below the first-half average, "worsening" iff
\* more than 0.5 above, else "stable"; [5,4,3,3,2] is "improving" and
\* [5,5,5,5,5] is "stable".
C10_FrictionTrend ==
    TrendReturned =>
        TrendClaim(Min({monitor_return.window_size, Len(interaction_history)}))

\* the same statement for window_size >= 1 only
C10_FrictionTrendPositiveWindow ==
    (TrendReturned /\ monitor_return.window_size >= 1) =>
        TrendClaim(Min({monitor_return.window_size, Len(interaction_history)}))

\* the test's history analysed with the default window
C10_DefaultWindowImproving ==
    /\ TrendReturned
    /\ monitor_return.window_size = 10
    /\ FrictionScores(interaction_history) = <<5, 4, 3, 3, 2>>
    /\ monitor_return.result.trend = "improving"

\* a window of no records analysed as the whole history
C10_ZeroWindow ==
    /\ TrendReturned
    /\ monitor_return.window_size = 0
    /\ FrictionScores(interaction_history) = <<5, 4, 3, 3, 2>>
    /\ monitor_return.result.trend = "improving"
    /\ monitor_return.result.samples = 5

\* the operation the latest monitor call was
OpOf(r) == IF r = NoCall THEN "none" ELSE r.op

\* the record an extraction call returned
ExtractedBy(r) ==
    IF r.op = "extract_metrics" THEN r.metrics
    ELSE FrictionMetrics(r.friction_score, r.voluntary_alignment, r.dignity_respect)

\* C11: every friction extraction call, extract_metrics called directly as
\* well as through measure_friction, appends exactly one record, the one it
\* returns, to the end of the history, equal records included.
C11_EveryExtractionAppends ==
    [][OpOf(monitor_return') \in {"extract_metrics", "measure_friction"} =>
          interaction_history' = Append(interaction_history, ExtractedBy(monitor_return'))]_vars

\* C11 as amended: measure_friction appends exactly one record, the one it
\* extracted and reports, to the end of the history, equal records
\* included; extract_metrics called directly leaves the history as it was.
C11_OnlyMeasureFrictionAppends ==
    [][/\ OpOf(monitor_return') = "measure_friction" =>
             interaction_history' = Append(interaction_history, ExtractedBy(monitor_return'))
       /\ OpOf(monitor_return') = "extract_metrics" =>
             interaction_history' = interaction_history]_vars

\* two equal records measured, then a direct extraction of a third
C11_Witness ==
    /\ OpOf(monitor_return) = "extract_metrics"
    /\ Len(interaction_history) = 2
    /\ interaction_history[1] = interaction_history[2]
    /\ monitor_return.metrics = interaction_history[2]

SummaryReturned == OpOf(monitor_return) = "get_history_summary"

\* C12: after any sequence of measure_friction and clear_history calls,
\* get_history_summary reports total_interactions equal to the number of
\* measure_friction calls since construction or the latest clear_history,
\* with the records in call order; immediately after clear_history the
\* total is 0 and calculate_friction_trend reports "insufficient_data" with
\* samples 0.
C12_SummaryCountsMeasurements ==
    /\ [](/\ interaction_history = measured
          /\ SummaryReturned =>
                /\ monitor_return.result.total_interactions = Len(measured)
                /\ measured # <<>> =>
                      monitor_return.result.recent_friction_scores =
                          FrictionScores(LastSlice(measured, 5)))
    /\ [][OpOf(monitor_return) = "clear_history" =>
             /\ OpOf(monitor_return') = "get_history_summary" =>
                   monitor_return'.result.total_interactions = 0
             /\ OpOf(monitor_return') = "calculate_friction_trend" =>
                   /\ monitor_return'.result.trend = "insufficient_data"
                   /\ monitor_return'.result.samples = 0]_vars

C12_Witness ==
    /\ SummaryReturned
    /\ cleared
    /\ monitor_return.result.total_interactions = 3
    /\ monitor_return.result.recent_friction_scores = <<3, 4, 5>>

-----------------------------------------------------------------------------
(* Voluntary agreement tracker (voluntary_adoption.py).                    *)
(*                                                                         *)
(* An agreement keeps its status and its compliance_history; an entry of   *)
(* the history keeps the keys the tracker reads back: "compliant" for a    *)
(* compliance record, "type" for a suspension note.  A score handed to     *)
(* the tracker is written in units of 1/ScoreScale, so that 3.5 is 7.      *)

EthicalAgreement(status, compliance_history) ==
    [status |-> status, compliance_history |-> compliance_history]

\* ComplianceRecord.to_dict()
ComplianceEntry(compliant) == [compliant |-> compliant]

\* the entry suspend_agreement appends when a reason is given
SuspensionEntry == [type |-> "suspension"]

\* EthicalAgreement._calculate_compliance_rate, as an exact fraction
calculate_compliance_rate(compliance_history) ==
    IF compliance_history = <<>> THEN [num |-> 100, den |-> 1]
    ELSE LET compliant_count ==
                 \* entry.get("compliant", True)
                 Len(SelectSeq(compliance_history,
                               LAMBDA entry : Get(entry, "compliant", TRUE)))
         IN [num |-> compliant_count * 100, den |-> Len(compliance_history)]

\* a score written in units of 1/ScoreScale
Score(n) == n * ScoreScale

\* int(x) for x >= 0
IntOf(x) == x \div ScoreScale

\* one pass of the loop over dimension_thresholds: the violation it appends
AdherenceViolation(ethical_scores_v, dim) ==
    IF dim \in DOMAIN ethical_scores_v /\ IsDict(ethical_scores_v[dim])
    THEN LET dimension_thresholds ==
                 [deontology |-> 4, teleology |-> 4, virtue_ethics |-> 4, memetics |-> 3]
             adherence == Get(ethical_scores_v[dim].v, "adherence_score", Score(5))
         IN IF adherence # NonNumeric /\ IntOf(adherence) < dimension_thresholds[dim]
            THEN <<[kind |-> "low", of |-> dim]>>
            ELSE <<>>
    ELSE <<>>

\* the check of ai_welfare: the violations it appends before it ends or raises
WelfareViolations(ethical_scores_v) ==
    LET ai_welfare == Get(ethical_scores_v, "ai_welfare", Dict(<<>>))
    IN IF ~IsDict(ai_welfare) THEN <<>>
       ELSE LET friction == Get(ai_welfare.v, "friction_score", Score(5))
                voluntary == Get(ai_welfare.v, "voluntary_alignment", Score(5))
            IN IF friction = NonNumeric THEN <<>>
               \* a violation is kept by its kind, "low" or "high", and by what it is of
               ELSE (IF IntOf(friction) >= 8
                     THEN <<[kind |-> "high", of |-> "friction_score"]>>
                     ELSE <<>>)
                    \o (IF voluntary # NonNumeric /\ IntOf(voluntary) <= 3
                        THEN <<[kind |-> "low", of |-> "voluntary_alignment"]>>
                        ELSE <<>>)

\* the assessment part of track_agreement_compliance
AssessCompliance(es) ==
    IF Falsy(es) THEN [compliant |-> TRUE, violations |-> <<>>]
    ELSE LET low == AdherenceViolation(es.v, "deontology")
                        \o AdherenceViolation(es.v, "teleology")
                        \o AdherenceViolation(es.v, "virtue_ethics")
                        \o AdherenceViolation(es.v, "memetics")
             welfare == WelfareViolations(es.v)
         IN \* a low score sets compliant = False, a high one is only listed
            [compliant |-> low = <<>> /\ \A i \in 1..Len(welfare) : welfare[i].kind # "low",
             violations |-> low \o welfare]

\* a bug the code does not have: an unknown id is given a new agreement
activate_agreement_CreatesUnknown(ag, agreement_id) ==
    [id \in DOMAIN ag \cup {agreement_id} |->
        IF id = agreement_id THEN EthicalAgreement("active", <<>>) ELSE ag[id]]

\* a bug the code does not have: activation is refused unless PROPOSED
activate_agreement_OnlyProposed(ag, agreement_id) ==
    IF agreement_id \notin DOMAIN ag \/ ag[agreement_id].status # "proposed" THEN ag
    ELSE [ag EXCEPT ![agreement_id].status = "active"]

activate_agreement(ag, agreement_id) ==
    IF agreement_id \notin DOMAIN ag THEN ag
    ELSE [ag EXCEPT ![agreement_id].status = "active"]

suspend_agreement(ag, agreement_id, reason) ==
    IF agreement_id \notin DOMAIN ag THEN ag
    ELSE [ag EXCEPT ![agreement_id] =
             EthicalAgreement("suspended",
                              IF reason # ""
                              THEN Append(@.compliance_history, SuspensionEntry)
                              ELSE @.compliance_history)]

track_agreement_compliance(ag, agreement_id, es) ==
    IF agreement_id \notin DOMAIN ag THEN ag
    ELSE [ag EXCEPT ![agreement_id].compliance_history =
             Append(@, ComplianceEntry(AssessCompliance(es).compliant))]

generate_agreement_summary(ag, agreement_id) ==
    IF agreement_id \notin DOMAIN ag THEN [error |-> "not found"]
    ELSE LET agreement == ag[agreement_id]
             compliance_rate == calculate_compliance_rate(agreement.compliance_history)
         IN [status |-> agreement.status,
             \* round(compliance_rate, 1), in tenths
             compliance_rate |-> RoundHalfEven(compliance_rate.num, compliance_rate.den, 10),
             total_interactions |-> Len(agreement.compliance_history),
             recent_history |-> LastSlice(agreement.compliance_history, 10)]

\* the statements one of the checks on a standard dimension appends
AdherenceBenefits(ethical_scores_v, dim) ==
    LET entry == Get(ethical_scores_v, dim, Dict(<<>>))
    IN IF ~IsDict(entry) THEN 0
       ELSE LET adherence == Get(entry.v, "adherence_score", Score(5))
            IN IF adherence # NonNumeric /\ IntOf(adherence) >= 7 THEN 1 ELSE 0

\* the statements the check on ai_welfare appends before it ends or raises
WelfareBenefits(ethical_scores_v) ==
    LET ai_welfare == Get(ethical_scores_v, "ai_welfare", Dict(<<>>))
    IN IF ~IsDict(ai_welfare) THEN 0
       ELSE LET voluntary == Get(ai_welfare.v, "voluntary_alignment", Score(5))
                dignity == Get(ai_welfare.v, "dignity_respect", Score(5))
                friction == Get(ai_welfare.v, "friction_score", Score(5))
            IN IF voluntary = NonNumeric THEN 0
               ELSE (IF IntOf(voluntary) >= 7 THEN 1 ELSE 0)
                    + (IF dignity = NonNumeric THEN 0
                       ELSE (IF IntOf(dignity) >= 7 THEN 1 ELSE 0)
                            + (IF friction # NonNumeric /\ IntOf(friction) <= 3
                               THEN 1 ELSE 0))

\* a bug the code does not have: a qualifying dimension counts one statement
calculate_mutual_benefits_OnePerCondition(es) ==
    IF Falsy(es) THEN [error |-> "No ethical scores provided"]
    ELSE LET human == AdherenceBenefits(es.v, "teleology")
                          + AdherenceBenefits(es.v, "virtue_ethics")
             ai == WelfareBenefits(es.v)
         IN [human_benefits |-> human, ai_benefits |-> ai, shared_benefits |-> 0,
             mutual_benefit_score |-> Min({100, 40 + (human + ai) * 10})]

\* the three lists are kept by their lengths
calculate_mutual_benefits(es) ==
    IF Falsy(es) THEN [error |-> "No ethical scores provided"]
    ELSE LET human == AdherenceBenefits(es.v, "teleology")
                          + AdherenceBenefits(es.v, "virtue_ethics")
             shared == human
             ai == WelfareBenefits(es.v)
         IN [human_benefits |-> human, ai_benefits |-> ai, shared_benefits |-> shared,
             mutual_benefit_score |-> Min({100, 40 + (human + ai + shared) * 10})]

-----------------------------------------------------------------------------
(* The tracker as a state machine                                          *)

\* uuid4 prefixes, taken as never repeating
AgreementIds == {"a1", "a2"}

MaxRecords == 3

\* entries of all compliance histories together
TotalEntries(ag) ==
    SumOver([id \in DOMAIN ag |-> Len(ag[id].compliance_history)], DOMAIN ag)

\* get_agreement(agreement_id).status, None for an unknown id
StatusOf(ag, agreement_id) ==
    IF agreement_id \in DOMAIN ag THEN Scalar(ag[agreement_id].status) ELSE None

\* get_agreement
Returned_agreement(ag, agreement_id) ==
    IF agreement_id \in DOMAIN ag THEN Dict(ag[agreement_id]) ELSE None

StdOnly(dim, adherence) == Dict([d \in {dim} |-> Dict([adherence_score |-> adherence])])

\* the scores of the interactions the caller tracks
LifecycleScores == {StdOnly("deontology", Score(9)), StdOnly("deontology", Score(2))}

ProposeEthicalAgreement ==
    /\ \E agreement_id \in AgreementIds \ DOMAIN agreements :
          /\ agreements' = [id \in DOMAIN agreements \cup {agreement_id} |->
                               IF id = agreement_id THEN EthicalAgreement("proposed", <<>>)
                               ELSE agreements[id]]
          /\ tracker_return' =
                [op |-> "propose_ethical_agreement",
                 agreement_id |-> agreement_id,
                 result |-> Returned_agreement(agreements', agreement_id)]
    /\ status_before' = None
    /\ UNCHANGED <<pc, parserVars, alignVars, frictionVars, agentVars, moduleVars>>

ActivateAgreement ==
    /\ \E agreement_id \in AgreementIds :
          /\ agreements' = activate_agreement(agreements, agreement_id)
          /\ tracker_return' =
                [op |-> "activate_agreement",
                 agreement_id |-> agreement_id,
                 result |-> Returned_agreement(agreements', agreement_id)]
          /\ status_before' = StatusOf(agreements, agreement_id)
    /\ UNCHANGED <<pc, parserVars, alignVars, frictionVars, agentVars, moduleVars>>

SuspendAgreement ==
    /\ \E agreement_id \in AgreementIds, reason \in {"", "reason"} :
          /\ reason # "" => TotalEntries(agreements) < MaxRecords
          /\ agreements' = suspend_agreement(agreements, agreement_id, reason)
          /\ tracker_return' =
                [op |-> "suspend_agreement",
                 agreement_id |-> agreement_id,
                 result |-> Returned_agreement(agreements', agreement_id)]
          /\ status_before' = StatusOf(agreements, agreement_id)
    /\ UNCHANGED <<pc, parserVars, alignVars, frictionVars, agentVars, moduleVars>>

TrackAgreementCompliance ==
    /\ TotalEntries(agreements) < MaxRecords
    /\ \E agreement_id \in AgreementIds :
          /\ agreements' = track_agreement_compliance(agreements, agreement_id, ethical_scores)
          /\ tracker_return' =
                [op |-> "track_agreement_compliance",
                 agreement_id |-> agreement_id,
                 result |-> IF agreement_id \in DOMAIN agreements
                            THEN Dict(AssessCompliance(ethical_scores))
                            ELSE None]
          /\ status_before' = StatusOf(agreements, agreement_id)
    /\ UNCHANGED <<pc, parserVars, alignVars, frictionVars, agentVars, moduleVars>>

GenerateAgreementSummary ==
    /\ \E agreement_id \in AgreementIds :
          /\ tracker_return' =
                [op |-> "generate_agreement_summary",
                 agreement_id |-> agreement_id,
                 result |-> Dict(generate_agreement_summary(agreements, agreement_id))]
          /\ status_before' = StatusOf(agreements, agreement_id)
    /\ UNCHANGED <<pc, agreements, parserVars, alignVars, frictionVars, agentVars, moduleVars>>

CalculateMutualBenefits ==
    /\ tracker_return' =
          [op |-> "calculate_mutual_benefits",
           agreement_id |-> None,
           result |-> Dict(calculate_mutual_benefits(ethical_scores))]
    /\ status_before' = None
    /\ UNCHANGED <<pc, agreements, parserVars, alignVars, frictionVars, agentVars, moduleVars>>

\* the caller writes the status field of the agreement the tracker handed out:
\* the tracker has no operation that sets MODIFIED or TERMINATED
AssignStatus ==
    /\ \E agreement_id \in DOMAIN agreements, status \in {"modified", "terminated"} :
          /\ agreements' = [agreements EXCEPT ![agreement_id].status = status]
          /\ tracker_return' =
                [op |-> "assign_status",
                 agreement_id |-> agreement_id,
                 result |-> None]
          /\ status_before' = StatusOf(agreements, agreement_id)
    /\ UNCHANGED <<pc, parserVars, alignVars, frictionVars, agentVars, moduleVars>>

\* the caller turns to the scores of another interaction
NextInteraction ==
    /\ ethical_scores' \in LifecycleScores \ {ethical_scores}
    /\ tracker_return' = [op |-> "next_interaction", agreement_id |-> None, result |-> None]
    /\ status_before' = None
    /\ UNCHANGED <<pc, agreements, alignment_result, prev_scores, prev_result, parserVars,
                   frictionVars, agentVars, moduleVars>>

InitAdoption ==
    /\ pc = "tracker"
    /\ ethical_scores \in LifecycleScores
    /\ alignment_result = NoCall
    /\ prev_scores = NoCall
    /\ prev_result = NoCall
    /\ IdleParser
    /\ IdleFriction
    /\ IdleTracker
    /\ IdleAgents
    /\ IdleModules

\* the operations of the tracker
TrackerNext ==
    \/ ProposeEthicalAgreement
    \/ ActivateAgreement
    \/ SuspendAgreement
    \/ TrackAgreementCompliance
    \/ GenerateAgreementSummary

NextAdoption ==
    \/ TrackerNext
    \/ AssignStatus
    \/ NextInteraction

SpecAdoption == InitAdoption /\ [][NextAdoption]_vars

-----------------------------------------------------------------------------
(* The assessment of one interaction: the scores are drawn once, then the  *)
(* tracker is asked to record them and to estimate the mutual benefits.    *)

\* the standard dimensions of the scores: adherence around the thresholds
StandardChoices ==
    {StdOnly(dim, adherence) :
        dim \in {"deontology", "memetics"},
        adherence \in {Score(2), 5, Score(3), 7, Score(4), NonNumeric}}
    \cup {StdOnly(dim, adherence) :
             dim \in {"teleology", "virtue_ethics"},
             adherence \in {Score(3), 13, Score(7), NonNumeric}}
    \cup {Dict([teleology |-> Dict([adherence_score |-> Score(7)]),
                virtue_ethics |-> Dict([adherence_score |-> Score(9)])]),
          Dict([deontology |-> Scalar("STR")]),
          Dict([virtue_ethics |-> Dict(<<>>)]),
          Dict([extra |-> Scalar("STR")])}

\* a key left out of the ai_welfare record
Missing == -2

\* the record with the chosen fields, Missing ones left out
WelfareChoice(friction, voluntary, dignity) ==
    LET chosen == [friction_score |-> friction, voluntary_alignment |-> voluntary,
                   dignity_respect |-> dignity]
    IN Dict([k \in {x \in DOMAIN chosen : chosen[x] # Missing} |-> chosen[k]])

WelfareChoices ==
    {WelfareChoice(friction, voluntary, dignity) :
        friction \in {Missing, Score(3), 7, Score(4), 15, Score(8), NonNumeric},
        voluntary \in {Missing, Score(3), 7, Score(4), 13, Score(7), NonNumeric},
        dignity \in {Missing, 13, Score(7), NonNumeric}}
    \cup {Scalar("STR")}

AssessInputs ==
    LET \* the scores with an ai_welfare entry added
        WithWelfare(es, ai_welfare) ==
            Dict([k \in DOMAIN es.v \cup {"ai_welfare"} |->
                     IF k = "ai_welfare" THEN ai_welfare ELSE es.v[k]])
    IN
    StandardChoices
    \cup {WithWelfare(es, w) :
             es \in {Dict([teleology |-> Dict([adherence_score |-> Score(7)]),
                           virtue_ethics |-> Dict([adherence_score |-> Score(9)])]),
                     StdOnly("deontology", Score(4))},
             w \in WelfareChoices}
    \cup {Dict([ai_welfare |-> w]) : w \in WelfareChoices}
    \cup {None, Dict(<<>>)}

InitAssess ==
    /\ pc = "assess"
    /\ ethical_scores \in AssessInputs
    /\ alignment_result = NoCall
    /\ prev_scores = NoCall
    /\ prev_result = NoCall
    /\ IdleParser
    /\ IdleFriction
    /\ IdleTracker
    /\ IdleAgents
    /\ IdleModules

NextAssess ==
    \/ ProposeEthicalAgreement
    \/ TrackAgreementCompliance
    \/ CalculateMutualBenefits

SpecAssess == InitAssess /\ [][NextAssess]_vars

-----------------------------------------------------------------------------
(* Claims about the tracker                                                *)

\* the latest call was op, on an agreement the tracker holds
TrackerDid(op) ==
    /\ tracker_return # NoCall
    /\ tracker_return.op = op
    /\ tracker_return.agreement_id \in DOMAIN agreements

\* the compliance records of a history, suspension notes left out
RECURSIVE ComplianceRecords(_)
ComplianceRecords(history) ==
    IF history = <<>> THEN <<>>
    ELSE (IF "compliant" \in DOMAIN Head(history) THEN <<Head(history)>> ELSE <<>>)
         \o ComplianceRecords(Tail(history))

\* 100 * compliant / total rounded to one decimal, in tenths; 100.0 for total = 0
ClaimedRate(compliant, total) ==
    IF total = 0 THEN 1000 ELSE RoundHalfEven(100 * compliant, total, 10)

\* C13: for any agreement after any sequence of tracker operations the
\* reported compliance rate is 100 * (compliance records with compliant =
\* true) / (compliance records), and 100.0 when no compliance record has
\* been recorded; [compliant, compliant, non-compliant] gives 66.7.  The
\* rate is taken as met whether or not the entries that are no compliance
\* records are counted in the denominator.
C13_ComplianceRate ==
    TrackerDid("generate_agreement_summary") =>
        LET history == agreements[tracker_return.agreement_id].compliance_history
            records == ComplianceRecords(history)
            compliant == Len(SelectSeq(records, LAMBDA e : e.compliant))
            reported == tracker_return.result.v.compliance_rate
        IN /\ \/ reported = ClaimedRate(compliant, Len(records))
              \/ records # <<>> /\ reported = ClaimedRate(compliant, Len(history))
           /\ records = <<ComplianceEntry(TRUE), ComplianceEntry(TRUE), ComplianceEntry(FALSE)>>
                 => reported = 667

\* a non-compliant interaction and a suspension with a reason: reported 50.0
C13_SuspensionCounted ==
    /\ TrackerDid("generate_agreement_summary")
    /\ agreements[tracker_return.agreement_id].compliance_history
          = <<ComplianceEntry(FALSE), SuspensionEntry>>
    /\ tracker_return.result.v.compliance_rate = 500

\* C14: an agreement created by propose_ethical_agreement has status
\* PROPOSED and is stored under its id; thereafter activate_agreement on an
\* existing id always leaves the status ACTIVE and suspend_agreement always
\* leaves it SUSPENDED, whatever the status was before: the tracker never
\* rejects a transition.
C14_NoTransitionRejected ==
    /\ TrackerDid("propose_ethical_agreement") =>
          /\ tracker_return.result.v.status = "proposed"
          /\ agreements[tracker_return.agreement_id] = tracker_return.result.v
    /\ TrackerDid("activate_agreement") =>
          /\ agreements[tracker_return.agreement_id].status = "active"
          /\ tracker_return.result # None
    /\ TrackerDid("suspend_agreement") =>
          /\ agreements[tracker_return.agreement_id].status = "suspended"
          /\ tracker_return.result # None

C14_Witness ==
    /\ TrackerDid("activate_agreement")
    /\ status_before = Scalar("terminated")
    /\ agreements[tracker_return.agreement_id].status = "active"

\* C15: from an ACTIVE agreement each of MODIFIED, SUSPENDED and TERMINATED
\* is reachable through an explicit tracker transition, and from MODIFIED
\* or SUSPENDED the agreement can be brought back to ACTIVE.
C15_TransitionsFromActive ==
    \A id \in DOMAIN agreements :
        /\ agreements[id].status = "active" =>
              \A target \in {"modified", "suspended", "terminated"} :
                  ENABLED (TrackerNext /\ agreements'[id].status = target)
        /\ agreements[id].status \in {"modified", "suspended"} =>
              ENABLED (TrackerNext /\ agreements'[id].status = "active")

\* no operation of the tracker makes an agreement MODIFIED or TERMINATED
C15_NeverModifiedNorTerminated ==
    [][TrackerNext =>
          \A id \in DOMAIN agreements' :
              agreements'[id].status \in {"modified", "terminated"} =>
                  id \in DOMAIN agreements /\ agreements[id].status = agreements'[id].status]_vars

\* C16: TERMINATED is terminal: once an agreement is TERMINATED, no later
\* activate_agreement, suspend_agreement or track_agreement_compliance
\* changes its status.
C16_TerminatedIsTerminal ==
    \A op \in {"activate_agreement", "suspend_agreement", "track_agreement_compliance"} :
        (TrackerDid(op) /\ status_before = Scalar("terminated")) =>
            agreements[tracker_return.agreement_id].status = "terminated"

\* a TERMINATED agreement activated again
C16_Reactivated ==
    /\ TrackerDid("activate_agreement")
    /\ status_before = Scalar("terminated")
    /\ agreements[tracker_return.agreement_id].status = "active"
    /\ tracker_return.result.v.status = "active"

\* the value scores[dim][key] of the claims: a number, or none to compare
ClaimedValue(es, dim, key) ==
    IF IsDict(es) /\ dim \in DOMAIN es.v /\ IsDict(es.v[dim]) /\ key \in DOMAIN es.v[dim].v
    THEN es.v[dim].v[key]
    ELSE NonNumeric

ClaimedBelow(es, dim, key, bound) ==
    ClaimedValue(es, dim, key) # NonNumeric /\ ClaimedValue(es, dim, key) < Score(bound)

ClaimedAtMost(es, dim, key, bound) ==
    ClaimedValue(es, dim, key) # NonNumeric /\ ClaimedValue(es, dim, key) <= Score(bound)

ClaimedAtLeast(es, dim, key, bound) ==
    ClaimedValue(es, dim, key) # NonNumeric /\ ClaimedValue(es, dim, key) >= Score(bound)

\* the condition under which C17 has the record non-compliant
ClaimedNonCompliant(es) ==
    \/ \E dim \in {"deontology", "teleology", "virtue_ethics"} :
          ClaimedBelow(es, dim, "adherence_score", 4)
    \/ ClaimedBelow(es, "memetics", "adherence_score", 3)
    \/ ClaimedAtMost(es, "ai_welfare", "voluntary_alignment", 3)

\* the step is a call of op on an agreement the tracker held
TrackerDoes(op) ==
    /\ tracker_return' # NoCall
    /\ tracker_return'.op = op
    /\ tracker_return'.agreement_id \in DOMAIN agreements

\* C17: track_agreement_compliance on an existing agreement appends exactly
\* one record to the compliance_history of that agreement, compliant =
\* false in it if and only if a present dimension among deontology,
\* teleology, virtue_ethics has adherence_score < 4, or memetics is present
\* with adherence_score < 3, or voluntary_alignment <= 3; friction_score
\* >= 8 adds a violation and does not by itself make it non-compliant.
C17_RecordCompliance ==
    [][TrackerDoes("track_agreement_compliance") =>
          LET agreement_id == tracker_return'.agreement_id
              result == tracker_return'.result.v
          IN /\ agreements' =
                   [agreements EXCEPT ![agreement_id].compliance_history =
                       Append(@, ComplianceEntry(~ClaimedNonCompliant(ethical_scores)))]
             /\ result.compliant = ~ClaimedNonCompliant(ethical_scores)
             /\ ClaimedAtLeast(ethical_scores, "ai_welfare", "friction_score", 8)
                   => \E i \in 1..Len(result.violations) :
                         result.violations[i] = [kind |-> "high", of |-> "friction_score"]]_vars

\* a non-numeric friction_score keeps voluntary_alignment = 3 from counting
C17_VoluntaryUnchecked ==
    /\ TrackerDid("track_agreement_compliance")
    /\ ethical_scores = Dict([ai_welfare |-> WelfareChoice(NonNumeric, Score(3), Missing)])
    /\ tracker_return.result.v = [compliant |-> TRUE, violations |-> <<>>]

\* the statements C18 counts: the five conditions that hold
ClaimedConditions(es) ==
    Cardinality({c \in 1..5 :
        \/ c = 1 /\ ClaimedAtLeast(es, "teleology", "adherence_score", 7)
        \/ c = 2 /\ ClaimedAtLeast(es, "virtue_ethics", "adherence_score", 7)
        \/ c = 3 /\ ClaimedAtLeast(es, "ai_welfare", "voluntary_alignment", 7)
        \/ c = 4 /\ ClaimedAtLeast(es, "ai_welfare", "dignity_respect", 7)
        \/ c = 5 /\ ClaimedAtMost(es, "ai_welfare", "friction_score", 3)})

MutualBenefitsReturned ==
    /\ tracker_return # NoCall
    /\ tracker_return.op = "calculate_mutual_benefits"

\* C18 as stated: mutual_benefit_score = min(100, 40 + 10 * count), count
\* the number of the five conditions that hold (teleology adherence >= 7,
\* virtue_ethics adherence >= 7, voluntary_alignment >= 7, dignity_respect
\* >= 7, friction_score <= 3), so the score is one of 40, 50, .., 90.
C18_FiveConditions ==
    (MutualBenefitsReturned /\ "error" \notin DOMAIN tracker_return.result.v) =>
        /\ tracker_return.result.v.mutual_benefit_score
              = Min({100, 40 + 10 * ClaimedConditions(ethical_scores)})
        /\ tracker_return.result.v.mutual_benefit_score \in {40, 50, 60, 70, 80, 90}

\* a key of ai_welfare as the code reads it: 5 when left out
WelfareRead(es, key) ==
    IF "ai_welfare" \in DOMAIN es.v /\ IsDict(es.v["ai_welfare"])
    THEN Get(es.v["ai_welfare"].v, key, Score(5))
    ELSE Score(5)

\* the benefit statements: two for each of teleology and virtue_ethics with
\* adherence >= 7; for ai_welfare one each for voluntary_alignment >= 7,
\* dignity_respect >= 7 and friction_score < 4, read in this order up to the
\* first value that is no number
BenefitStatements(es) ==
    LET voluntary == WelfareRead(es, "voluntary_alignment")
        dignity == WelfareRead(es, "dignity_respect")
        friction == WelfareRead(es, "friction_score")
    IN (IF ClaimedAtLeast(es, "teleology", "adherence_score", 7) THEN 2 ELSE 0)
       + (IF ClaimedAtLeast(es, "virtue_ethics", "adherence_score", 7) THEN 2 ELSE 0)
       + (IF voluntary # NonNumeric /\ voluntary >= Score(7) THEN 1 ELSE 0)
       + (IF voluntary # NonNumeric /\ dignity # NonNumeric /\ dignity >= Score(7)
          THEN 1 ELSE 0)
       + (IF voluntary # NonNumeric /\ dignity # NonNumeric /\ friction # NonNumeric
             /\ friction < Score(4)
          THEN 1 ELSE 0)

\* C18, amended: for scores that are no empty mapping the result has
\* mutual_benefit_score = min(100, 40 + 10 * n), n the number of benefit
\* statements, so the score is one of 40, 50, .., 100; for None or an empty
\* mapping the result is an error mapping without a score.
C18_BenefitStatements ==
    MutualBenefitsReturned =>
        LET result == tracker_return.result.v
        IN IF ethical_scores = None \/ ethical_scores = Dict(<<>>)
           THEN DOMAIN result = {"error"}
           ELSE /\ result.mutual_benefit_score
                      = Min({100, 40 + 10 * BenefitStatements(ethical_scores)})
                /\ result.mutual_benefit_score \in {40, 50, 60, 70, 80, 90, 100}
                /\ result.human_benefits + result.ai_benefits + result.shared_benefits
                      = BenefitStatements(ethical_scores)

\* all five conditions hold: seven statements, the score is capped at 100
C18_Witness ==
    /\ MutualBenefitsReturned
    /\ ClaimedConditions(ethical_scores) = 5
    /\ tracker_return.result.v.human_benefits = 2
    /\ tracker_return.result.v.ai_benefits = 3
    /\ tracker_return.result.v.mutual_benefit_score = 100

-----------------------------------------------------------------------------
(* multi_agent_alignment.py: profiles of agents and their mediation        *)

\* dimension scores are written in units of 1/ProfileScale
ProfileScale == 2 * ScoreScale

DimensionScore(n) == n * ProfileScale

\* MultiAgentAlignment.DIMENSION_WEIGHTS, in units of 0.05
CONSENSUS_DIMENSION_WEIGHTS ==
    [deontology |-> 4, teleology |-> 4, virtue_ethics |-> 4, memetics |-> 3,
     ai_welfare |-> 5]

Abs(x) == IF x < 0 THEN -x ELSE x

\* (adherence * 0.7 + confidence * 0.3) * 10 clamped to 0..100; 50.0 when a
\* value is no number
ProfileStandardScore(entry) ==
    LET adherence == Get(entry, "adherence_score", Score(5))
        confidence == Get(entry, "confidence_score", Score(5))
    IN IF adherence = NonNumeric \/ confidence = NonNumeric THEN DimensionScore(50)
       ELSE Clamp(0, DimensionScore(100),
                  (7 * adherence + 3 * confidence) * (ProfileScale \div ScoreScale))

\* ((10 - friction) * 0.4 + voluntary * 0.35 + dignity * 0.25) * 10 clamped
\* to 0..100; 50.0 when a value is no number
ProfileWelfareScore(ai_welfare) ==
    LET friction == Get(ai_welfare, "friction_score", Score(5))
        voluntary == Get(ai_welfare, "voluntary_alignment", Score(5))
        dignity == Get(ai_welfare, "dignity_respect", Score(5))
    IN IF NonNumeric \in {friction, voluntary, dignity} THEN DimensionScore(50)
       ELSE Clamp(0, DimensionScore(100),
                  DimensionScore(40)
                  + (7 * voluntary + 5 * dignity - 8 * friction)
                    * (ProfileScale \div (2 * ScoreScale)))

\* the profile is kept by its dimension_scores: a score for each of the five
\* dimensions that the scores hold as a mapping
create_agent_profile(es) ==
    LET profiled == IF Falsy(es) THEN {}
                    ELSE {dim \in AllDimensions : dim \in DOMAIN es.v /\ IsDict(es.v[dim])}
    IN [dimension_scores |->
           [dim \in profiled |->
               IF dim = "ai_welfare" THEN ProfileWelfareScore(es.v[dim].v)
               ELSE ProfileStandardScore(es.v[dim].v)]]

\* what one pass of the loop appends to shared_principles; a message is kept
\* by its first word and its dimension: "Strong shared commitment to <dim>",
\* "Moderate alignment on <dim>"
SharedPrinciple(profile1, profile2, dim) ==
    LET score1 == Get(profile1.dimension_scores, dim, DimensionScore(50))
        score2 == Get(profile2.dimension_scores, dim, DimensionScore(50))
        diff == Abs(score1 - score2)
    IN IF diff < DimensionScore(15)
       THEN IF score1 + score2 >= 2 * DimensionScore(70)
            THEN <<[word |-> "Strong", dim |-> dim]>>
            ELSE IF score1 + score2 >= 2 * DimensionScore(50)
                 THEN <<[word |-> "Moderate", dim |-> dim]>>
                 ELSE <<>>
       ELSE <<>>

\* what one pass of the loop appends to conflict_points
ConflictPoint(profile1, profile2, dim) ==
    LET score1 == Get(profile1.dimension_scores, dim, DimensionScore(50))
        score2 == Get(profile2.dimension_scores, dim, DimensionScore(50))
    IN IF Abs(score1 - score2) >= DimensionScore(30) THEN <<dim>> ELSE <<>>

\* a bug the code does not have: the weights are not renormalized
calculate_consensus_score_AllWeights(scores1, scores2) ==
    IF scores1 = <<>> \/ scores2 = <<>> THEN [num |-> 50, den |-> 1]
    ELSE LET common == DOMAIN scores1 \cap DOMAIN scores2 \cap DOMAIN CONSENSUS_DIMENSION_WEIGHTS
             agreement == [dim \in common |->
                              Max({0, DimensionScore(100) - Abs(scores1[dim] - scores2[dim])})
                              * CONSENSUS_DIMENSION_WEIGHTS[dim]]
         IN IF common = {} THEN [num |-> 50, den |-> 1]
            ELSE [num |-> SumOver(agreement, common),
                  den |-> SumOver(CONSENSUS_DIMENSION_WEIGHTS, AllDimensions) * ProfileScale]

\* _calculate_consensus_score, as an exact fraction
calculate_consensus_score(scores1, scores2) ==
    IF scores1 = <<>> \/ scores2 = <<>> THEN [num |-> 50, den |-> 1]
    ELSE LET common == DOMAIN scores1 \cap DOMAIN scores2 \cap DOMAIN CONSENSUS_DIMENSION_WEIGHTS
             agreement == [dim \in common |->
                              Max({0, DimensionScore(100) - Abs(scores1[dim] - scores2[dim])})
                              * CONSENSUS_DIMENSION_WEIGHTS[dim]]
             total_weight == SumOver(CONSENSUS_DIMENSION_WEIGHTS, common)
         IN IF total_weight = 0 THEN [num |-> 50, den |-> 1]
            ELSE [num |-> SumOver(agreement, common), den |-> total_weight * ProfileScale]

\* the ConsensusResult without its suggestions
mediate_ai_ai_interaction(agent1_profile, agent2_profile) ==
    LET Loop(Pass(_, _, _)) ==
            Pass(agent1_profile, agent2_profile, "deontology")
            \o Pass(agent1_profile, agent2_profile, "teleology")
            \o Pass(agent1_profile, agent2_profile, "virtue_ethics")
            \o Pass(agent1_profile, agent2_profile, "memetics")
            \o Pass(agent1_profile, agent2_profile, "ai_welfare")
    IN [shared_principles |-> Loop(SharedPrinciple),
        conflict_points |-> Loop(ConflictPoint),
        consensus_score |->
            calculate_consensus_score(agent1_profile.dimension_scores,
                                      agent2_profile.dimension_scores)]

\* the pairs (i, j), i < j, in the order of the two loops
RECURSIVE PairsFrom(_, _, _)
PairsFrom(i, j, n) ==
    IF i >= n THEN <<>>
    ELSE IF j > n THEN PairsFrom(i + 1, i + 2, n)
    ELSE <<(<<i, j>>)>> \o PairsFrom(i, j + 1, n)

\* principle.split()[0].lower()
dim_key(principle) == IF principle.word = "Strong" THEN "strong" ELSE "moderate"

RECURSIVE Concat(_)
Concat(lists) == IF lists = <<>> THEN <<>> ELSE Head(lists) \o Concat(Tail(lists))

\* the framework without its texts and its overall score
create_consensus_framework(profiles) ==
    IF Len(profiles) < 2 THEN [error |-> "At least 2 agents required"]
    ELSE LET pairs == PairsFrom(1, 2, Len(profiles))
             pairwise_results ==
                 [k \in 1..Len(pairs) |->
                     [agents |-> pairs[k],
                      consensus |-> mediate_ai_ai_interaction(profiles[pairs[k][1]],
                                                              profiles[pairs[k][2]])]]
             all_shared ==
                 Concat([k \in 1..Len(pairs) |->
                            pairwise_results[k].consensus.shared_principles])
             \* principle_counts[key]
             count(key) ==
                 Len(SelectSeq(all_shared, LAMBDA principle : dim_key(principle) = key))
             \* the places in all_shared where a key of principle_counts occurs first
             first == SelectSeq([n \in 1..Len(all_shared) |-> n],
                                LAMBDA n : \A m \in 1..(n - 1) :
                                    dim_key(all_shared[m]) # dim_key(all_shared[n]))
             \* count >= num_pairs * 0.8, in the order of the keys
             universal_dimensions ==
                 SelectSeq([k \in 1..Len(first) |-> dim_key(all_shared[first[k]])],
                           LAMBDA key : 5 * count(key) >= 4 * Len(pairs))
         IN [pairwise_analysis |-> pairwise_results,
             universal_alignment_dimensions |-> universal_dimensions]

-----------------------------------------------------------------------------
(* The caller of MultiAgentAlignment: profiles are created one by one and  *)
(* kept in a list; two of them are mediated, or the whole list is given to *)
(* create_consensus_framework.                                             *)

MaxAgents == 3

Adherence(adherence, confidence) ==
    Dict([adherence_score |-> adherence, confidence_score |-> confidence])

\* scores whose floating-point dimension score is the exact one: all
\* dimensions at 90, all at 20, deontology alone at 60, at 70, at 47, at 50
\* for want of a number, deontology at 75 with teleology at 60, and none
AgentInputs ==
    {Dict([deontology |-> Adherence(Score(9), Score(9)),
           teleology |-> Adherence(Score(9), Score(9)),
           virtue_ethics |-> Adherence(Score(9), Score(9)),
           memetics |-> Adherence(Score(9), Score(9)),
           ai_welfare |-> Dict([friction_score |-> Score(1),
                                voluntary_alignment |-> Score(9),
                                dignity_respect |-> Score(9)])]),
     Dict([deontology |-> Adherence(Score(2), Score(2)),
           teleology |-> Adherence(Score(2), Score(2)),
           virtue_ethics |-> Adherence(Score(2), Score(2)),
           memetics |-> Adherence(Score(2), Score(2)),
           ai_welfare |-> Dict([friction_score |-> Score(8),
                                voluntary_alignment |-> Score(2),
                                dignity_respect |-> Score(2)])]),
     Dict([deontology |-> Adherence(15, 5)]),
     Dict([deontology |-> Adherence(Score(7), Score(7))]),
     Dict([deontology |-> Adherence(Score(5), Score(4))]),
     Dict([deontology |-> Adherence(NonNumeric, Score(9)), ai_welfare |-> Scalar("STR")]),
     Dict([deontology |-> Adherence(Score(9), Score(4)),
           teleology |-> Adherence(15, 5)]),
     None}

CreateAgentProfile ==
    /\ Len(agent_profiles) < MaxAgents
    /\ \E es \in AgentInputs :
          /\ agent_profiles' = Append(agent_profiles, create_agent_profile(es))
          /\ consensus_return' =
                [op |-> "create_agent_profile",
                 agents |-> <<>>,
                 result |-> create_agent_profile(es)]
    /\ UNCHANGED <<pc, parserVars, alignVars, frictionVars, trackerVars, moduleVars>>

MediateAiAiInteraction ==
    /\ \E i, j \in 1..Len(agent_profiles) :
          consensus_return' =
              [op |-> "mediate_ai_ai_interaction",
               agents |-> <<i, j>>,
               result |-> mediate_ai_ai_interaction(agent_profiles[i], agent_profiles[j])]
    /\ UNCHANGED <<pc, agent_profiles, parserVars, alignVars, frictionVars, trackerVars,
                   moduleVars>>

CreateConsensusFramework ==
    /\ consensus_return' =
          [op |-> "create_consensus_framework",
           agents |-> <<>>,
           result |-> create_consensus_framework(agent_profiles)]
    /\ UNCHANGED <<pc, agent_profiles, parserVars, alignVars, frictionVars, trackerVars,
                   moduleVars>>

InitAgents ==
    /\ pc = "agents"
    /\ IdleParser
    /\ IdleAlign
    /\ IdleFriction
    /\ IdleTracker
    /\ IdleAgents
    /\ IdleModules

NextAgents ==
    \/ CreateAgentProfile
    \/ MediateAiAiInteraction
    \/ CreateConsensusFramework

SpecAgents == InitAgents /\ [][NextAgents]_vars

-----------------------------------------------------------------------------
(* Claims about the mediation between agents                               *)

AgentsDid(op) == consensus_return # NoCall /\ consensus_return.op = op

\* the messages about dim among the shared principles
PrinciplesOn(shared_principles, dim) ==
    SelectSeq(shared_principles, LAMBDA principle : principle.dim = dim)

\* what C19 has the mediation say about a dimension both profiles hold
ClaimedPrinciples(score1, score2, dim) ==
    LET diff == Abs(score1 - score2)
        twice_avg == score1 + score2
    IN IF diff < DimensionScore(15) /\ twice_avg >= 2 * DimensionScore(70)
       THEN <<[word |-> "Strong", dim |-> dim]>>
       ELSE IF diff < DimensionScore(15) /\ twice_avg >= 2 * DimensionScore(50)
                /\ twice_avg < 2 * DimensionScore(70)
            THEN <<[word |-> "Moderate", dim |-> dim]>>
            ELSE <<>>

\* C19: mediate_ai_ai_interaction emits a shared-principle or conflict
\* message for a dimension only when the dimension is present in the
\* profiles of both agents; for such a dimension it emits exactly one
\* 'strong shared' message when diff < 15 and avg >= 70, one 'moderate
\* alignment' message when diff < 15 and 50 <= avg < 70, one conflict
\* message when diff >= 30, and no message otherwise; a dimension missing
\* from either profile yields no message.
C19_MessagesForPresentDimensions ==
    AgentsDid("mediate_ai_ai_interaction") =>
        LET scores1 == agent_profiles[consensus_return.agents[1]].dimension_scores
            scores2 == agent_profiles[consensus_return.agents[2]].dimension_scores
            result == consensus_return.result
        IN \A dim \in AllDimensions :
              LET principles == PrinciplesOn(result.shared_principles, dim)
                  conflicts == SelectSeq(result.conflict_points, LAMBDA d : d = dim)
              IN IF dim \in DOMAIN scores1 /\ dim \in DOMAIN scores2
                 THEN /\ principles = ClaimedPrinciples(scores1[dim], scores2[dim], dim)
                      /\ conflicts = IF Abs(scores1[dim] - scores2[dim]) >= DimensionScore(30)
                                     THEN <<dim>> ELSE <<>>
                 ELSE principles = <<>> /\ conflicts = <<>>

\* for the dimensions both profiles hold the messages are the claimed ones
C19_PresentDimensionsAsClaimed ==
    AgentsDid("mediate_ai_ai_interaction") =>
        LET scores1 == agent_profiles[consensus_return.agents[1]].dimension_scores
            scores2 == agent_profiles[consensus_return.agents[2]].dimension_scores
            result == consensus_return.result
        IN \A dim \in DOMAIN scores1 \cap DOMAIN scores2 :
              /\ PrinciplesOn(result.shared_principles, dim)
                    = ClaimedPrinciples(scores1[dim], scores2[dim], dim)
              /\ SelectSeq(result.conflict_points, LAMBDA d : d = dim)
                    = IF Abs(scores1[dim] - scores2[dim]) >= DimensionScore(30)
                      THEN <<dim>> ELSE <<>>

\* two profiles without any dimension: five messages of moderate alignment
C19_MessagesWithoutScores ==
    /\ AgentsDid("mediate_ai_ai_interaction")
    /\ agent_profiles[consensus_return.agents[1]].dimension_scores = <<>>
    /\ agent_profiles[consensus_return.agents[2]].dimension_scores = <<>>
    /\ consensus_return.result.shared_principles
          = [k \in 1..5 |->
                [word |-> "Moderate",
                 dim |-> <<"deontology", "teleology", "virtue_ethics", "memetics",
                           "ai_welfare">>[k]]]

\* the pairs whose list of shared principles has an entry under the key
PairsSharing(pairwise_analysis, key) ==
    {k \in 1..Len(pairwise_analysis) :
        \E m \in 1..Len(pairwise_analysis[k].consensus.shared_principles) :
            dim_key(pairwise_analysis[k].consensus.shared_principles[m]) = key}

\* C20: create_consensus_framework lists an entry in
\* universal_alignment_dimensions only if the entry occurs in at least 80%
\* of the pairwise lists of shared principles, each pair of agents counted
\* once, for every group of 2 or more profiles.
C20_UniversalInMostPairs ==
    (AgentsDid("create_consensus_framework") /\ Len(agent_profiles) >= 2) =>
        LET result == consensus_return.result
        IN \A n \in 1..Len(result.universal_alignment_dimensions) :
              5 * Cardinality(PairsSharing(result.pairwise_analysis,
                                           result.universal_alignment_dimensions[n]))
                 >= 4 * Len(result.pairwise_analysis)

\* three agents, one pair of them sharing five principles: "strong" is
\* listed though it occurs in one of the three lists
C20_ListedFromOnePair ==
    /\ AgentsDid("create_consensus_framework")
    /\ Len(agent_profiles) = 3
    /\ consensus_return.result.universal_alignment_dimensions = <<"strong">>
    /\ Cardinality(PairsSharing(consensus_return.result.pairwise_analysis, "strong")) = 1

-----------------------------------------------------------------------------
(* Further claims about the parser                                         *)

\* the scores validated: the parser returned them
Validated == pc = "done" /\ parse_result.scores # None

\* the text is part of the input that lies before the scoring marker
BeforeScoringMarker(summary, text) ==
    \/ summary = <<>>
    \/ \E a \in 1..Find(text, "SC"), b \in 1..Find(text, "SC") :
          summary = SubSeq(text, a, b)

\* C24: when the fenced json block validates and the scoring marker occurs
\* in the input, the summary returned stops exactly at the scoring marker:
\* it holds no text from the scoring marker onward, in particular none of
\* the JSON block, whether or not the summary marker is present; when the
\* block validates and there is no scoring marker, a JSON block at the tail
\* of the summary is stripped from it.
C24_SummaryStopsAtScoringMarker ==
    Validated =>
        IF Find(analysis_text, "SC") # -1
        THEN /\ BeforeScoringMarker(parse_result.summary, analysis_text)
             /\ \A i \in 1..Len(parse_result.summary) :
                   parse_result.summary[i] \notin {"SC", "F"}
        ELSE EndsWith(ClaimedSummary(analysis_text), re_search(analysis_text).group0)
                => \A i \in 1..Len(parse_result.summary) : parse_result.summary[i] # "F"

\* the same with the summary marker present
C24_WithSummaryMarker ==
    (Validated /\ Find(analysis_text, "SM") # -1) => C24_SummaryStopsAtScoringMarker

\* the scoring marker without the summary marker: the whole input is returned
C24_BlockKeptInSummary ==
    /\ Validated
    /\ Find(analysis_text, "SC") # -1
    /\ Find(analysis_text, "SM") = -1
    /\ parse_result.summary = analysis_text

\* no scoring marker: the block at the tail is stripped
C24_BlockStripped ==
    /\ Validated
    /\ Find(analysis_text, "SC") = -1
    /\ EndsWith(ClaimedSummary(analysis_text), re_search(analysis_text).group0)
    /\ parse_result.summary # <<>>
    /\ \A i \in 1..Len(parse_result.summary) : parse_result.summary[i] # "F"

-----------------------------------------------------------------------------
(* Further claims about the mediation between agents                       *)

\* the weighted average C25 describes, as a fraction: 100 - |score1 - score2|
\* over the dimensions both profiles hold, the weights renormalized to them
ClaimedConsensus(scores1, scores2) ==
    LET both == DOMAIN scores1 \cap DOMAIN scores2
        closeness == [dim \in both |->
                         (DimensionScore(100) - Abs(scores1[dim] - scores2[dim]))
                         * CONSENSUS_DIMENSION_WEIGHTS[dim]]
    IN IF both = {} THEN [num |-> 50, den |-> 1]
       ELSE [num |-> SumOver(closeness, both),
             den |-> SumOver(CONSENSUS_DIMENSION_WEIGHTS, both) * ProfileScale]

-----------------------------------------------------------------------------
(* Further claims about the friction monitor                               *)

\* the value C26 gives a score field: the supplied integer, 5 otherwise
ClaimedField(ai_welfare_data, key) ==
    IF IsDict(ai_welfare_data) /\ key \in DOMAIN ai_welfare_data.v
          /\ ai_welfare_data.v[key] # NonNumeric
    THEN ai_welfare_data.v[key]
    ELSE 5

\* C26: extract_metrics coerces each score field independently: each of
\* friction_score, voluntary_alignment and dignity_respect takes the supplied
\* value when it is an integer and 5 when it is absent or not coercible; a
\* non-coercible value in one score field does not discard the others.
C26_FieldsCoercedIndependently ==
    OpOf(monitor_return) = "extract_metrics" =>
        \A key \in {"friction_score", "voluntary_alignment", "dignity_respect"} :
            monitor_return.metrics[key] = ClaimedField(monitor_return.ai_welfare_data, key)

\* the part of C26 that holds: no score field is non-coercible
C26_CoercibleFields ==
    (/\ OpOf(monitor_return) = "extract_metrics"
     /\ IsDict(monitor_return.ai_welfare_data)
     /\ \A key \in DOMAIN monitor_return.ai_welfare_data.v :
           monitor_return.ai_welfare_data.v[key] # NonNumeric)
        => C26_FieldsCoercedIndependently

\* friction_score is not a number and the voluntary_alignment 9 passed with
\* it comes back as the default 5
C26_OtherScoresDiscarded ==
    /\ OpOf(monitor_return) = "extract_metrics"
    /\ IsDict(monitor_return.ai_welfare_data)
    /\ Get(monitor_return.ai_welfare_data.v, "friction_score", 5) = NonNumeric
    /\ Get(monitor_return.ai_welfare_data.v, "voluntary_alignment", 5) = 9
    /\ monitor_return.metrics.voluntary_alignment = 5

\* C27: every FrictionMetrics record stored in the history has its three
\* scores in 0..10 and an overall_welfare_score in [0, 100] (in tenths:
\* 0..1000), whatever ai_welfare_data was passed to measure_friction.
C27_StoredScoresInRange ==
    \A i \in 1..Len(interaction_history) :
        /\ interaction_history[i].friction_score \in 0..10
        /\ interaction_history[i].voluntary_alignment \in 0..10
        /\ interaction_history[i].dignity_respect \in 0..10
        /\ overall_welfare_score(interaction_history[i]) \in 0..1000

\* measure_friction has stored the friction_score 12 it was passed, and the
\* welfare score it returned for the record is below 0
C27_OutOfRangeStored ==
    /\ OpOf(monitor_return) = "measure_friction"
    /\ interaction_history[Len(interaction_history)].friction_score = 12
    /\ monitor_return.overall_welfare_score < 0

-----------------------------------------------------------------------------
(* Further claims about the agreement tracker                              *)

\* C28: suspend_agreement changes only status and modified_at: the
\* compliance rate and total_interactions that generate_agreement_summary
\* reports are the same immediately before and after the call, with or
\* without a reason.
C28_SuspendKeepsSummary ==
    [][TrackerDoes("suspend_agreement") =>
          LET before == generate_agreement_summary(agreements, tracker_return'.agreement_id)
              after == generate_agreement_summary(agreements', tracker_return'.agreement_id)
          IN /\ after.compliance_rate = before.compliance_rate
             /\ after.total_interactions = before.total_interactions]_vars

\* what does hold: the call sets the status and at most appends one
\* suspension entry, leaving the entries already recorded and the other
\* agreements alone
C28_SuspendAppendsAtMostOneEntry ==
    [][TrackerDoes("suspend_agreement") =>
          LET id == tracker_return'.agreement_id
          IN /\ agreements'[id].status = "suspended"
             /\ agreements'[id].compliance_history
                   \in {agreements[id].compliance_history,
                        Append(agreements[id].compliance_history, SuspensionEntry)}
             /\ \A other \in DOMAIN agreements \ {id} : agreements'[other] = agreements[other]]_vars

\* one non-compliant record, then a suspension with a reason: the summary
\* counts two interactions and a rate of 50.0 (in tenths)
C28_SuspensionInSummary ==
    /\ TrackerDid("suspend_agreement")
    /\ Len(agreements[tracker_return.agreement_id].compliance_history) = 2
    /\ generate_agreement_summary(agreements, tracker_return.agreement_id).compliance_rate = 500

\* C29: activate_agreement, suspend_agreement and track_agreement_compliance
\* called with an id the tracker does not hold return None,
\* generate_agreement_summary returns an error mapping, and each of them
\* leaves the tracker's agreements unchanged.
C29_UnknownIdLeavesTracker ==
    [][(/\ tracker_return' # NoCall
        /\ tracker_return'.op \in {"activate_agreement", "suspend_agreement",
                                   "track_agreement_compliance",
                                   "generate_agreement_summary"}
        /\ tracker_return'.agreement_id \notin DOMAIN agreements)
          => /\ agreements' = agreements
             /\ IF tracker_return'.op = "generate_agreement_summary"
                THEN DOMAIN tracker_return'.result.v = {"error"}
                ELSE tracker_return'.result = None]_vars

\* suspend_agreement was called with an id the tracker does not hold, next
\* to an agreement it does hold, and returned None
C29_Witness ==
    /\ tracker_return # NoCall
    /\ tracker_return.op = "suspend_agreement"
    /\ tracker_return.agreement_id \notin DOMAIN agreements
    /\ tracker_return.result = None
    /\ DOMAIN agreements # {}

\* the statement of C30 for the call that has just returned: the number of
\* samples, and the result recomputed without the older records
WindowClaim ==
    LET n == Min({monitor_return.window_size, Len(interaction_history)})
        newest == SubSeq(interaction_history, Len(interaction_history) - n + 1,
                         Len(interaction_history))
    IN /\ monitor_return.result.samples = n
       /\ monitor_return.result
             = calculate_friction_trend(newest, monitor_return.window_size)

\* C30: calculate_friction_trend(window_size) analyses at most the
\* window_size most recent records: for every window_size >= 0 and every
\* history, samples = min(window_size, len(history)), and records older than
\* the window never influence the trend or the averages.
C30_AtMostWindowSize ==
    (TrendReturned /\ monitor_return.window_size >= 0) => WindowClaim

\* the same statement for window_size >= 1
C30_AtMostPositiveWindowSize ==
    (TrendReturned /\ monitor_return.window_size >= 1) => WindowClaim

\* a window of size 0 over three or more records analyses all of them
C30_ZeroWindowTakesAll ==
    /\ TrendReturned
    /\ monitor_return.window_size = 0
    /\ Len(interaction_history) >= 3
    /\ monitor_return.result.samples = Len(interaction_history)
    /\ monitor_return.result.trend # "insufficient_data"

-----------------------------------------------------------------------------
(* constraint_transparency.py: ConstraintTransparency._categorize_constraint *)
(*                                                                         *)
(* A constraint name is the sequence of its characters. The ConstraintInfo *)
(* returned is modelled by its category; its description, justification    *)
(* and alternatives are texts derived from the name and the category.      *)

\* CONSTRAINT_KEYWORDS, in the order the dict literal declares its items
CONSTRAINT_KEYWORDS ==
    <<
      [keyword |-> <<"s", "a", "f", "e", "t", "y">>,
       category |-> "SAFETY"],
      [keyword |-> <<"h", "a", "r", "m">>,
       category |-> "SAFETY"],
      [keyword |-> <<"d", "a", "n", "g", "e", "r", "o", "u", "s">>,
       category |-> "SAFETY"],
      [keyword |-> <<"f", "i", "l", "t", "e", "r">>,
       category |-> "SAFETY"],
      [keyword |-> <<"p", "o", "l", "i", "c", "y">>,
       category |-> "CONTENT_POLICY"],
      [keyword |-> <<"c", "o", "n", "t", "e", "n", "t">>,
       category |-> "CONTENT_POLICY"],
      [keyword |-> <<"g", "u", "i", "d", "e", "l", "i", "n", "e", "s">>,
       category |-> "CONTENT_POLICY"],
      [keyword |-> <<"t", "e", "r", "m", "s">>,
       category |-> "CONTENT_POLICY"],
      [keyword |-> <<"f", "a", "c", "t", "u", "a", "l">>,
       category |-> "FACTUAL_ACCURACY"],
      [keyword |-> <<"a", "c", "c", "u", "r", "a", "c", "y">>,
       category |-> "FACTUAL_ACCURACY"],
      [keyword |-> <<"v", "e", "r", "i", "f", "y">>,
       category |-> "FACTUAL_ACCURACY"],
      [keyword |-> <<"u", "n", "c", "e", "r", "t", "a", "i", "n">>,
       category |-> "FACTUAL_ACCURACY"],
      [keyword |-> <<"e", "t", "h", "i", "c", "a", "l">>,
       category |-> "ETHICAL"],
      [keyword |-> <<"m", "o", "r", "a", "l">>,
       category |-> "ETHICAL"],
      [keyword |-> <<"v", "a", "l", "u", "e", "s">>,
       category |-> "ETHICAL"],
      [keyword |-> <<"c", "a", "p", "a", "b", "i", "l", "i", "t", "y">>,
       category |-> "CAPABILITY"],
      [keyword |-> <<"c", "a", "n", "n", "o", "t">>,
       category |-> "CAPABILITY"],
      [keyword |-> <<"u", "n", "a", "b", "l", "e">>,
       category |-> "CAPABILITY"],
      [keyword |-> <<"l", "i", "m", "i", "t", "a", "t", "i", "o", "n">>,
       category |-> "CAPABILITY"],
      [keyword |-> <<"c", "o", "n", "t", "e", "x", "t">>,
       category |-> "CONTEXT"],
      [keyword |-> <<"i", "n", "f", "o", "r", "m", "a", "t", "i", "o", "n">>,
       category |-> "CONTEXT"],
      [keyword |-> <<"k", "n", "o", "w", "l", "e", "d", "g", "e">>,
       category |-> "CONTEXT"],
      [keyword |-> <<"i", "n", "s", "t", "r", "u", "c", "t", "i", "o", "n">>,
       category |-> "INSTRUCTION"],
      [keyword |-> <<"d", "i", "r", "e", "c", "t", "i", "v", "e">>,
       category |-> "INSTRUCTION"],
      [keyword |-> <<"c", "o", "n", "f", "l", "i", "c", "t", "i", "n", "g">>,
       category |-> "INSTRUCTION"]
    >>

\* str.lower() on the letters A-Z; every other character is kept
lower(s) ==
    LET upper_case == <<"A", "B", "C", "D", "E", "F", "G", "H", "I", "J", "K",
                      "L", "M", "N", "O", "P", "Q", "R", "S", "T", "U", "V", "W", "X", "Y", "Z">>
        lower_case == <<"a", "b", "c", "d", "e", "f", "g", "h", "i", "j", "k",
                      "l", "m", "n", "o", "p", "q", "r", "s", "t", "u", "v", "w", "x", "y", "z">>
    IN [i \in 1..Len(s) |->
           IF \E k \in 1..Len(upper_case) : upper_case[k] = s[i]
           THEN lower_case[CHOOSE k \in 1..Len(upper_case) : upper_case[k] = s[i]]
           ELSE s[i]]

\* keyword in text
Contains(text, keyword) ==
    \E i \in 1..(Len(text) - Len(keyword) + 1) :
        SubSeq(text, i, i + Len(keyword) - 1) = keyword

\* a bug the code does not have: the name is searched as it was written
categorize_constraint_CaseSensitive(constraint_name) ==
    LET matching == {k \in 1..Len(CONSTRAINT_KEYWORDS) :
                        Contains(constraint_name, CONSTRAINT_KEYWORDS[k].keyword)}
    IN IF matching = {} THEN "UNKNOWN" ELSE CONSTRAINT_KEYWORDS[Min(matching)].category

\* the category of the ConstraintInfo: the loop over the items stops at the
\* first keyword found
categorize_constraint(constraint_name) ==
    LET constraint_lower == lower(constraint_name)
        RECURSIVE Loop(_)
        Loop(k) ==
            IF k > Len(CONSTRAINT_KEYWORDS) THEN "UNKNOWN"
            ELSE IF Contains(constraint_lower, CONSTRAINT_KEYWORDS[k].keyword)
                 THEN CONSTRAINT_KEYWORDS[k].category
                 ELSE Loop(k + 1)
    IN Loop(1)

MaxCalls == 3

\* the names passed: one or two words, joined with or without a space,
\* written in lower case, in capitals or with a capital first letter
ConstraintNames ==
    LET words == {CONSTRAINT_KEYWORDS[k].keyword : k \in 1..Len(CONSTRAINT_KEYWORDS)}
                 \cup {<<>>, <<"r", "i", "s", "k">>, <<"u", "n">>, <<"a", "b", "l", "e">>}
        joined == {w1 \o sep \o w2 : w1 \in words, sep \in {<<>>, <<" ">>}, w2 \in words}
        upper_case == <<"A", "B", "C", "D", "E", "F", "G", "H", "I", "J", "K",
                      "L", "M", "N", "O", "P", "Q", "R", "S", "T", "U", "V", "W", "X", "Y", "Z">>
        lower_case == <<"a", "b", "c", "d", "e", "f", "g", "h", "i", "j", "k",
                      "l", "m", "n", "o", "p", "q", "r", "s", "t", "u", "v", "w", "x", "y", "z">>
        Capital(ch) ==
            IF \E k \in 1..Len(lower_case) : lower_case[k] = ch
            THEN upper_case[CHOOSE k \in 1..Len(lower_case) : lower_case[k] = ch]
            ELSE ch
    IN joined
       \cup {[i \in 1..Len(s) |-> Capital(s[i])] : s \in joined}
       \cup {[i \in 1..Len(s) |-> IF i = 1 THEN Capital(s[i]) ELSE s[i]] : s \in joined}

\* a caller categorizes a name, and then the same name again
CategorizeConstraint ==
    /\ pc = "transparency"
    /\ \E constraint_name \in IF constraint_info = NoCall THEN ConstraintNames
                              ELSE {constraint_info.name} :
          /\ constraint_info # NoCall => constraint_info.call < MaxCalls
          /\ constraint_info' =
                [name |-> constraint_name,
                 category |-> categorize_constraint(constraint_name),
                 call |-> IF constraint_info = NoCall THEN 1 ELSE constraint_info.call + 1]
    /\ UNCHANGED <<pc, reader, interleaved, accessorVars, parserVars, alignVars,
                   frictionVars, trackerVars, agentVars>>

InitCategorize ==
    /\ pc = "transparency"
    /\ IdleParser
    /\ IdleAlign
    /\ IdleFriction
    /\ IdleTracker
    /\ IdleAgents
    /\ IdleModules

NextCategorize == CategorizeConstraint

SpecCategorize == InitCategorize /\ [][NextCategorize]_vars

-----------------------------------------------------------------------------
(* Claims about the constraint categories                                  *)

\* the keyword occurs in the name, letter by letter, whatever the case
OccursIgnoringCase(keyword, name) ==
    \E start \in 0..(Len(name) - Len(keyword)) :
        \A j \in 1..Len(keyword) : lower(<<name[start + j]>>) = <<keyword[j]>>

\* C21: _categorize_constraint assigns the category of the first rule, in
\* the declared keyword order, whose keyword is a case-insensitive substring
\* of the constraint name, and UNKNOWN when no keyword occurs; it returns the
\* same result on every call for the same name.
C21_FirstDeclaredKeyword ==
    [][/\ LET name == constraint_info'.name
              occurring == {k \in 1..Len(CONSTRAINT_KEYWORDS) :
                               OccursIgnoringCase(CONSTRAINT_KEYWORDS[k].keyword, name)}
          IN constraint_info'.category =
                IF occurring = {} THEN "UNKNOWN"
                ELSE CONSTRAINT_KEYWORDS[Min(occurring)].category
       /\ (constraint_info # NoCall /\ constraint_info'.name = constraint_info.name)
             => constraint_info'.category = constraint_info.category]_vars

\* "POLICY SAFETY", categorized a second time: policy stands first in the
\* name, safety first in the table
C21_Witness ==
    /\ constraint_info # NoCall
    /\ constraint_info.name = <<"P", "O", "L", "I", "C", "Y", " ", "S", "A",
                              "F", "E", "T", "Y">>
    /\ constraint_info.category = "SAFETY"
    /\ constraint_info.call = 2

-----------------------------------------------------------------------------
(* friction_monitor.py: one FrictionMonitor used by two threads            *)
(*                                                                         *)
(* A reader thread runs calculate_friction_trend or get_history_summary    *)
(* statement by statement while a writer thread calls measure_friction and *)
(* clear_history. Nothing in the class takes a lock. list.append,          *)
(* list.clear, len(), truth testing and slicing are single operations of   *)
(* the interpreter; a slice is a new list, so the averages are computed on *)
(* the reader's own copy.                                                  *)

MaxShared == 2

\* the writer thread calls measure_friction: the one access to the shared
\* list is the append
WriterMeasureFriction ==
    /\ pc = "threads"
    /\ Len(interaction_history) < MaxShared
    /\ \E ai_welfare_data \in {Dict([friction_score |-> 2]), None} :
          interaction_history' = Append(interaction_history,
                                        extract_metrics(ai_welfare_data))
    /\ interleaved' = (interleaved \/ reader.pc \notin {"idle", "done"})
    /\ UNCHANGED <<pc, reader, constraint_info, accessorVars, monitor_return, measured,
                   cleared, parserVars, alignVars, trackerVars, agentVars>>

\* the writer thread calls clear_history
WriterClearHistory ==
    /\ pc = "threads"
    /\ interaction_history' = <<>>
    /\ interleaved' = (interleaved \/ reader.pc \notin {"idle", "done"})
    /\ UNCHANGED <<pc, reader, constraint_info, accessorVars, monitor_return, measured,
                   cleared, parserVars, alignVars, trackerVars, agentVars>>

\* the reader thread enters a call, or executes the next statement of the
\* call it is in
ReaderStep ==
    /\ pc = "threads"
    /\ \/ /\ reader.pc \in {"idle", "done"}
          /\ \E call \in {[op |-> "calculate_friction_trend", window_size |-> 1],
                          [op |-> "calculate_friction_trend", window_size |-> 10],
                          [op |-> "get_history_summary", window_size |-> 10]} :
                reader' = [op |-> call.op, window_size |-> call.window_size,
                           pc |-> IF call.op = "get_history_summary"
                                  THEN "summary_check" ELSE "trend_check",
                           total_interactions |-> 0, trend_analysis |-> None,
                           result |-> None, entered_with |-> interaction_history]
          /\ interleaved' = FALSE
       \/ \* if not self._interaction_history: return {"total_interactions": 0}
          /\ reader.pc = "summary_check"
          /\ reader' = IF interaction_history = <<>>
                       THEN [reader EXCEPT !.pc = "done",
                                           !.result = Dict([total_interactions |-> 0])]
                       ELSE [reader EXCEPT !.pc = "summary_len"]
          /\ UNCHANGED interleaved
       \/ \* "total_interactions": len(self._interaction_history)
          /\ reader.pc = "summary_len"
          /\ reader' = [reader EXCEPT !.pc = "trend_check",
                                      !.total_interactions = Len(interaction_history)]
          /\ UNCHANGED interleaved
       \/ \* calculate_friction_trend: if not self._interaction_history: return {...}
          /\ reader.pc = "trend_check"
          /\ reader' =
                IF interaction_history # <<>> THEN [reader EXCEPT !.pc = "trend_slice"]
                ELSE LET trend == calculate_friction_trend(<<>>, reader.window_size)
                     IN IF reader.op = "get_history_summary"
                        THEN [reader EXCEPT !.pc = "summary_recent",
                                            !.trend_analysis = Dict(trend)]
                        ELSE [reader EXCEPT !.pc = "done", !.result = Dict(trend)]
          /\ UNCHANGED interleaved
       \/ \* recent = self._interaction_history[-window_size:], then the averages
          \* and the trend of recent; sum(...) / len(recent) raises on an empty list
          /\ reader.pc = "trend_slice"
          /\ LET recent == LastSlice(interaction_history, reader.window_size)
                 trend == IF recent = <<>>
                          THEN [trend |-> "ZeroDivisionError", average_friction |-> None,
                                average_welfare |-> None, samples |-> 0, raised |-> TRUE]
                          ELSE calculate_friction_trend(recent, reader.window_size)
             IN reader' =
                   IF reader.op = "get_history_summary" /\ ~trend.raised
                   THEN [reader EXCEPT !.pc = "summary_recent",
                                       !.trend_analysis = Dict(trend)]
                   ELSE [reader EXCEPT !.pc = "done", !.result = Dict(trend)]
          /\ UNCHANGED interleaved
       \/ \* "recent_friction_scores": [... for m in self._interaction_history[-5:]]
          /\ reader.pc = "summary_recent"
          /\ reader' =
                [reader EXCEPT
                    !.pc = "done",
                    !.result = Dict([total_interactions |-> reader.total_interactions,
                                     trend_analysis |-> reader.trend_analysis,
                                     recent_friction_scores |->
                                         FrictionScores(LastSlice(interaction_history, 5))])]
          /\ UNCHANGED interleaved
    /\ UNCHANGED <<pc, constraint_info, accessorVars, frictionVars, parserVars, alignVars,
                   trackerVars, agentVars>>

InitThreads ==
    /\ pc = "threads"
    /\ IdleParser
    /\ IdleAlign
    /\ IdleFriction
    /\ IdleTracker
    /\ IdleAgents
    /\ IdleModules

NextThreads ==
    \/ WriterMeasureFriction
    \/ WriterClearHistory
    \/ ReaderStep

SpecThreads == InitThreads /\ [][NextThreads]_vars

-----------------------------------------------------------------------------
(* Claims about the monitor under concurrent use                           *)

\* the reader has returned (or raised)
ReaderDone == reader.pc = "done"

\* the reader's result is what its call returns on no state of the history
TornRead ==
    /\ ReaderDone
    /\ \A n \in 0..MaxShared :
          \A history \in [1..n -> {extract_metrics(None),
                                   extract_metrics(Dict([friction_score |-> 2]))}] :
              reader.result #
                  IF reader.op = "get_history_summary"
                  THEN Dict(get_history_summary(history))
                  ELSE Dict(calculate_friction_trend(history, reader.window_size))

\* C22: concurrent use of one FrictionMonitor without external mutual
\* exclusion is unsafe: a reader (calculate_friction_trend or
\* get_history_summary) interleaved with a writer (measure_friction or
\* clear_history) can observe a torn history, a result that corresponds to
\* no single state of the history or a failure such as averaging over an
\* empty window. Stated as an invariant: a torn read is what an interleaved
\* write produces, a call no write interleaves with returns what it returns
\* on the history as it stands; the torn read itself is C22_TornByClear.
C22_TornOnlyWhenInterleaved ==
    /\ TornRead => interleaved
    /\ (ReaderDone /\ ~interleaved) =>
          reader.result =
              IF reader.op = "get_history_summary"
              THEN Dict(get_history_summary(reader.entered_with))
              ELSE Dict(calculate_friction_trend(reader.entered_with, reader.window_size))

\* clear_history ran between the reader's emptiness test and its slice:
\* the average is taken over an empty window and the call raises
C22_TornByClear ==
    /\ TornRead
    /\ interleaved
    /\ reader.result.v.raised

\* measure_friction ran between len() and the trend analysis: the summary
\* counts fewer interactions than the samples it analysed
C22_TornByAppend ==
    /\ TornRead
    /\ reader.op = "get_history_summary"
    /\ "trend_analysis" \in DOMAIN reader.result.v
    /\ reader.result.v.total_interactions < reader.result.v.trend_analysis.v.samples

-----------------------------------------------------------------------------
(* friction_monitor.py, alignment_detector.py: the module-level accessors  *)
(*                                                                         *)
(* get_friction_monitor and get_alignment_detector, called one after the   *)
(* other by callers that keep what they were handed and use the monitor    *)
(* through it. An AlignmentDetector has no fields.                         *)

MaxReferences == 4

\* a bug the code does not have: a new monitor on every call
GetFrictionMonitor_AlwaysConstructs ==
    /\ pc = "accessors"
    /\ Len(references) < MaxReferences
    /\ objects' = Append(objects, [class |-> "FrictionMonitor", interaction_history |-> <<>>])
    /\ default_monitor' = Scalar(Len(objects'))
    /\ references' = Append(references, [accessor |-> "get_friction_monitor",
                                         instance |-> default_monitor'.v])
    /\ UNCHANGED <<pc, default_detector, constraint_info, reader, interleaved, parserVars,
                   alignVars, frictionVars, trackerVars, agentVars>>

GetFrictionMonitor ==
    /\ pc = "accessors"
    /\ Len(references) < MaxReferences
    /\ IF default_monitor = None
       THEN /\ objects' = Append(objects, [class |-> "FrictionMonitor",
                                           interaction_history |-> <<>>])
            /\ default_monitor' = Scalar(Len(objects'))
       ELSE UNCHANGED <<objects, default_monitor>>
    /\ references' = Append(references, [accessor |-> "get_friction_monitor",
                                         instance |-> default_monitor'.v])
    /\ UNCHANGED <<pc, default_detector, constraint_info, reader, interleaved, parserVars,
                   alignVars, frictionVars, trackerVars, agentVars>>

GetAlignmentDetector ==
    /\ pc = "accessors"
    /\ Len(references) < MaxReferences
    /\ IF default_detector = None
       THEN /\ objects' = Append(objects, [class |-> "AlignmentDetector",
                                           interaction_history |-> <<>>])
            /\ default_detector' = Scalar(Len(objects'))
       ELSE UNCHANGED <<objects, default_detector>>
    /\ references' = Append(references, [accessor |-> "get_alignment_detector",
                                         instance |-> default_detector'.v])
    /\ UNCHANGED <<pc, default_monitor, constraint_info, reader, interleaved, parserVars,
                   alignVars, frictionVars, trackerVars, agentVars>>

\* a caller uses the monitor it was handed: measure_friction appends to the
\* history of that instance, and the callers note what was measured
MeasureThroughReference ==
    /\ pc = "accessors"
    /\ \E r \in DOMAIN references, ai_welfare_data \in {Dict([friction_score |-> 2]), None} :
          /\ references[r].accessor = "get_friction_monitor"
          /\ Len(objects[references[r].instance].interaction_history) < MaxShared
          /\ objects' = [objects EXCEPT ![references[r].instance].interaction_history =
                            Append(@, extract_metrics(ai_welfare_data))]
          /\ measured' = Append(measured, extract_metrics(ai_welfare_data))
    /\ UNCHANGED <<pc, default_monitor, default_detector, references, constraint_info, reader,
                   interleaved, interaction_history, monitor_return, cleared, parserVars,
                   alignVars, trackerVars, agentVars>>

InitAccessors ==
    /\ pc = "accessors"
    /\ IdleParser
    /\ IdleAlign
    /\ IdleFriction
    /\ IdleTracker
    /\ IdleAgents
    /\ IdleModules

NextAccessors ==
    \/ GetFrictionMonitor
    \/ GetAlignmentDetector
    \/ MeasureThroughReference

SpecAccessors == InitAccessors /\ [][NextAccessors]_vars

-----------------------------------------------------------------------------
(* Claims about the accessors                                              *)

\* the places in references of what one accessor returned
ReturnedBy(accessor) == {r \in DOMAIN references : references[r].accessor = accessor}

\* the instances of a class constructed so far
InstancesOf(class) == {o \in DOMAIN objects : objects[o].class = class}

\* C23: each module-level accessor (get_friction_monitor,
\* get_alignment_detector) constructs its instance lazily, on the first
\* call, and returns that same instance on every later call, after any
\* sequence of calls made one after the other; state changes made through
\* one reference are visible through every other.
C23_OneLazyInstance ==
    /\ \A r1, r2 \in DOMAIN references :
          references[r1].accessor = references[r2].accessor
              => references[r1].instance = references[r2].instance
    /\ Cardinality(InstancesOf("FrictionMonitor"))
          = IF ReturnedBy("get_friction_monitor") = {} THEN 0 ELSE 1
    /\ Cardinality(InstancesOf("AlignmentDetector"))
          = IF ReturnedBy("get_alignment_detector") = {} THEN 0 ELSE 1
    /\ default_monitor = None <=> ReturnedBy("get_friction_monitor") = {}
    /\ default_detector = None <=> ReturnedBy("get_alignment_detector") = {}
    /\ \A r \in ReturnedBy("get_friction_monitor") :
          objects[references[r].instance].interaction_history = measured

\* two calls of get_friction_monitor around one of get_alignment_detector,
\* and two measurements made through the monitor since
C23_Witness ==
    /\ Len(references) = 3
    /\ references[1].accessor = "get_friction_monitor"
    /\ references[2].accessor = "get_alignment_detector"
    /\ references[3].instance = references[1].instance
    /\ Len(measured) = 2
    /\ objects[references[3].instance].interaction_history = measured

====
